---- MODULE Spec2Model ----
(***************************************************************************)
(* Model of the Evangelista Monte Carlo core: ConfigurationManager         *)
(* (merge, dotted get, distribution lookup, validation) and                *)
(* UniversalMonteCarloEngine (construction, setup, run, statistics,        *)
(* sensitivity, triggers).                                                 *)
(*                                                                         *)
(* Values of a YAML tree are tagged one-field records, so that values of   *)
(* different Python types are never equal:                                 *)
(*   [map |-> f]   dict, f a function from key strings to values           *)
(*   [list |-> s]  list, s a sequence of values                            *)
(*   [str |-> x]   string        [int |-> n]  number                       *)
(*   [none |-> TRUE]  None                                                 *)
(***************************************************************************)
EXTENDS Integers, Sequences, FiniteSets, TLC

VARIABLES
    template,          \* ConfigurationManager.template
    client,            \* ConfigurationManager.client
    config,            \* ConfigurationManager.config, the merged tree
    op,                \* the last call made and what it returned or raised
    engine,            \* "none", "ok" (constructed) or "failed" (__init__ raised)
    historical_data,   \* UniversalMonteCarloEngine.historical_data
    variables_config,  \* UniversalMonteCarloEngine.variables_config
    model_function,    \* UniversalMonteCarloEngine.model_function
    results,           \* UniversalMonteCarloEngine.results
    rng                \* state of the process-global numpy generator

managerVars == <<template, client, config>>

engineVars == <<engine, historical_data, variables_config, model_function, results, rng>>

vars == <<template, client, config, op, engine, historical_data, variables_config,
          model_function, results, rng>>

----------------------------------------------------------------------------
(* Python values *)

None == [none |-> TRUE]

IsMap(v) == DOMAIN v = {"map"}

IsList(v) == DOMAIN v = {"list"}

IsNone(v) == DOMAIN v = {"none"}

EmptyMap == [map |-> <<>>]

\* No engine object has been constructed on the manager.
NoEngine ==
    /\ engine = "none"
    /\ historical_data = <<>>
    /\ variables_config = <<>>
    /\ model_function = None
    /\ results = None
    /\ rng = 0

MapOf(f) == [map |-> f]

\* Python truthiness (bool(v)): None, "", 0, {} and [] are falsy.
Truthy(v) ==
    IF IsNone(v) THEN FALSE
    ELSE IF IsMap(v) THEN DOMAIN v.map # {}
    ELSE IF IsList(v) THEN Len(v.list) > 0
    ELSE IF DOMAIN v = {"str"} THEN v.str # ""
    ELSE v.int # 0

----------------------------------------------------------------------------
(* ConfigurationManager._merge_configs *)

\* dict.update: every client key replaces the template key, nothing recurses.
MergeShallow(t, c) ==
    MapOf([k \in DOMAIN t.map \cup DOMAIN c.map |->
              IF k \in DOMAIN c.map THEN c.map[k] ELSE t.map[k]])

RECURSIVE MergeConfigs(_, _)
MergeConfigs(t, c) ==
    MapOf([k \in DOMAIN t.map \cup DOMAIN c.map |->
              IF k \in DOMAIN c.map
              THEN IF k \in DOMAIN t.map /\ IsMap(t.map[k]) /\ IsMap(c.map[k])
                   THEN MergeConfigs(t.map[k], c.map[k])
                   ELSE c.map[k]
              ELSE t.map[k]])

----------------------------------------------------------------------------
(* ConfigurationManager.get *)

\* A path string is a sequence of atoms: "." or a maximal dot-free run of
\* characters.  str.split('.') cuts it at every ".", an empty run gives "".
RECURSIVE SplitFrom(_, _, _, _)
SplitFrom(path, i, cur, acc) ==
    IF i > Len(path) THEN Append(acc, cur)
    ELSE IF path[i] = "." THEN SplitFrom(path, i + 1, "", Append(acc, cur))
    ELSE SplitFrom(path, i + 1, path[i], acc)

Split(path) == SplitFrom(path, 1, "", <<>>)

\* The loop of get: the outcome of walking keys[i..] from value.  value[key]
\* raises KeyError on a missing key.
RECURSIVE Walk(_, _, _, _)
Walk(value, keys, i, default) ==
    IF i > Len(keys) THEN [exc |-> "none", val |-> value]
    ELSE IF IsMap(value)
         THEN IF keys[i] \in DOMAIN value.map
              THEN Walk(value.map[keys[i]], keys, i + 1, default)
              ELSE [exc |-> "KeyError", val |-> None]
         ELSE [exc |-> "none", val |-> default]

\* get without its try/except.
GetNoCatch(cfg, path, default) == Walk(cfg, Split(path), 1, default)

GetOutcome(cfg, path, default) ==
    LET r == Walk(cfg, Split(path), 1, default)
    IN  IF r.exc \in {"KeyError", "TypeError"}
        THEN [exc |-> "none", val |-> default]
        ELSE r

\* The value get returns (GetOutcome never carries an exception).
Get(cfg, path, default) == GetOutcome(cfg, path, default).val

----------------------------------------------------------------------------
(* ConfigurationManager.get_variables, get_distribution_config, validate *)

PyStr(s) == [str |-> s]

PyInt(n) == [int |-> n]

PyList(s) == [list |-> s]

\* The atoms of a dot-free string interpolated into a path.
StrAtoms(s) == IF s = "" THEN <<>> ELSE <<s>>

NoMsg == [msg |-> "", arg |-> ""]

GetVariables(cfg) == Get(cfg, <<"common_variables">>, PyList(<<>>))

DistNotFoundMsg(name) ==
    [msg |-> "No se encontro configuracion de distribucion para variable: ",
     arg |-> name]

\* A lookup that tries the template default before the client override.
GetDistributionConfigDefaultFirst(cfg, variable_name) ==
    LET custom == Get(cfg, <<"simulation", ".", "custom_distributions", ".">>
                               \o StrAtoms(variable_name), None)
        default == Get(cfg, <<"default_distributions", ".">>
                               \o StrAtoms(variable_name), None)
    IN  IF Truthy(default) THEN [exc |-> "none", val |-> default, err |-> NoMsg]
        ELSE IF Truthy(custom) THEN [exc |-> "none", val |-> custom, err |-> NoMsg]
        ELSE [exc |-> "ValueError", val |-> None,
              err |-> DistNotFoundMsg(variable_name)]

GetDistributionConfig(cfg, variable_name) ==
    LET custom == Get(cfg, <<"simulation", ".", "custom_distributions", ".">>
                               \o StrAtoms(variable_name), None)
        default == Get(cfg, <<"default_distributions", ".">>
                               \o StrAtoms(variable_name), None)
    IN  IF Truthy(custom) THEN [exc |-> "none", val |-> custom, err |-> NoMsg]
        ELSE IF Truthy(default) THEN [exc |-> "none", val |-> default, err |-> NoMsg]
        ELSE [exc |-> "ValueError", val |-> None,
              err |-> DistNotFoundMsg(variable_name)]

IndustryMsg == [msg |-> "Cliente no especifica 'industry'", arg |-> ""]

IndustryNameMsg == [msg |-> "Template no tiene 'industry.name'", arg |-> ""]

CommonVariablesMsg == [msg |-> "Template no tiene 'common_variables'", arg |-> ""]

ParamMsg(param) ==
    [msg |-> "Parametro requerido faltante: business_parameters.", arg |-> param]

\* Validacion 3: the loop over business_model.parameters_required.
RECURSIVE ParamErrors(_, _, _)
ParamErrors(cfg, required_params, i) ==
    IF i > Len(required_params) THEN <<>>
    ELSE LET param == required_params[i].str
             v == Get(cfg, <<"business_parameters", ".">> \o StrAtoms(param), None)
         IN  (IF IsNone(v) THEN <<ParamMsg(param)>> ELSE <<>>)
                 \o ParamErrors(cfg, required_params, i + 1)

\* var.get('name') of one entry of common_variables.
VarName(var) == IF "name" \in DOMAIN var.map THEN var.map["name"] ELSE None

\* Validacion 4: the loop over the declared variables.
RECURSIVE VarErrors(_, _, _)
VarErrors(cfg, variables, i) ==
    IF i > Len(variables) THEN <<>>
    ELSE LET var_name == VarName(variables[i])
         IN  (IF Truthy(var_name)
                 /\ GetDistributionConfig(cfg, var_name.str).exc = "ValueError"
              THEN <<GetDistributionConfig(cfg, var_name.str).err>>
              ELSE <<>>)
                 \o VarErrors(cfg, variables, i + 1)

ValidateErrors(cfg) ==
    (IF ~Truthy(Get(cfg, <<"client", ".", "industry">>, None))
     THEN <<IndustryMsg>> ELSE <<>>)
    \o (IF ~Truthy(Get(cfg, <<"industry", ".", "name">>, None))
        THEN <<IndustryNameMsg>> ELSE <<>>)
    \o (IF ~Truthy(Get(cfg, <<"common_variables">>, None))
        THEN <<CommonVariablesMsg>> ELSE <<>>)
    \o ParamErrors(cfg, Get(cfg, <<"business_model", ".", "parameters_required">>,
                            PyList(<<>>)).list, 1)
    \o VarErrors(cfg, GetVariables(cfg).list, 1)

\* A validation that stops at the first defect it meets.
ValidateFirstOnly(cfg) ==
    LET errors == ValidateErrors(cfg)
    IN  [is_valid |-> Len(errors) = 0,
         errors |-> IF errors = <<>> THEN <<>> ELSE <<Head(errors)>>]

Validate(cfg) ==
    LET errors == ValidateErrors(cfg)
    IN  [is_valid |-> Len(errors) = 0, errors |-> errors]

----------------------------------------------------------------------------
(* Numbers.  Floats are fixed-point integers of the unit the configuration   *)
(* is written in; a quotient is rounded down to that unit, a percentage      *)
(* offset is held in hundredths (-10 is -0.10).                              *)

\* float('nan'): what pandas returns for a statistic of too few values.
NaN == -1000000

RECURSIVE SeqSum(_)
SeqSum(s) == IF s = <<>> THEN 0 ELSE Head(s) + SeqSum(Tail(s))

SeqMin(s) == CHOOSE x \in {s[i] : i \in 1..Len(s)} : \A j \in 1..Len(s) : x <= s[j]

SeqMax(s) == CHOOSE x \in {s[i] : i \in 1..Len(s)} : \A j \in 1..Len(s) : x >= s[j]

\* The ascending rearrangement of s.
RECURSIVE SortAsc(_)
SortAsc(s) ==
    IF s = <<>> THEN <<>>
    ELSE LET i == CHOOSE k \in 1..Len(s) : \A j \in 1..Len(s) : s[k] <= s[j]
         IN  <<s[i]>> \o SortAsc(SubSeq(s, 1, i - 1) \o SubSeq(s, i + 1, Len(s)))

RECURSIVE Bisect(_, _, _)
Bisect(n, lo, hi) ==
    IF hi - lo <= 1 THEN lo
    ELSE LET mid == (lo + hi) \div 2
         IN  IF mid <= n \div mid THEN Bisect(n, mid, hi) ELSE Bisect(n, lo, mid)

ISqrt(n) == IF n < 1 THEN 0 ELSE Bisect(n, 1, n + 1)

\* Series.dropna()
DropNa(s) == SelectSeq(s, LAMBDA v : v # NaN)

\* Series.mean(), .std() (ddof = 1), .min(), .max(), .median()
Mean(s) == IF Len(s) = 0 THEN NaN ELSE SeqSum(s) \div Len(s)

SampleStd(s) ==
    IF Len(s) < 2 THEN NaN
    ELSE LET m == SeqSum(s)
             n == Len(s)
             \* n^2 times the sum of squared deviations from the mean
             ss == SeqSum([i \in 1..n |-> (n * s[i] - m) * (n * s[i] - m)])
         IN  ISqrt(ss \div (n * n * (n - 1)))

MinOf(s) == IF Len(s) = 0 THEN NaN ELSE SeqMin(s)

MaxOf(s) == IF Len(s) = 0 THEN NaN ELSE SeqMax(s)

Median(s) ==
    IF Len(s) = 0 THEN NaN
    ELSE LET a == SortAsc(s)
             n == Len(s)
         IN  IF n % 2 = 1 THEN a[(n + 1) \div 2]
             ELSE (a[n \div 2] + a[n \div 2 + 1]) \div 2

----------------------------------------------------------------------------
(* UniversalMonteCarloEngine._calculate_distribution_params,                *)
(* _get_fallback_params                                                     *)

Ok(v) == [exc |-> "none", val |-> v]

Raise(e) == [exc |-> e, val |-> None]

\* dict.get(key, default) on a mapping of numbers
NumGet(m, key, default) == IF key \in DOMAIN m.map THEN m.map[key].int ELSE default

\* Parameters whose triangular mode is the mean of the observations.
CalculateDistributionParamsModeIsMean(df, dist_config) ==
    LET values == DropNa(df)
        dist_type == dist_config.map["type"].str
    IN  IF dist_type = "normal"
        THEN Ok([mean |-> Mean(values), std |-> SampleStd(values)])
        ELSE IF dist_type = "triangular"
        THEN Ok([min |-> MinOf(values), mode |-> Mean(values), max |-> MaxOf(values)])
        ELSE IF dist_type = "uniform"
        THEN Ok([min |-> MinOf(values), max |-> MaxOf(values)])
        ELSE Raise("ValueError")

CalculateDistributionParams(df, dist_config) ==
    LET values == DropNa(df)
        dist_type == dist_config.map["type"].str
    IN  IF dist_type = "normal"
        THEN Ok([mean |-> Mean(values), std |-> SampleStd(values)])
        ELSE IF dist_type = "triangular"
        THEN Ok([min |-> MinOf(values), mode |-> Median(values), max |-> MaxOf(values)])
        ELSE IF dist_type = "uniform"
        THEN Ok([min |-> MinOf(values), max |-> MaxOf(values)])
        ELSE Raise("ValueError")

DefaultCurrentValue == 100

DefaultMinPct == -10

DefaultModePct == 0

DefaultMaxPct == 15

\* Fallback parameters anchored on 100 whatever current_prices says.
GetFallbackParamsIgnoresCurrent(cfg, variable_name, dist_config) ==
    LET fallback == IF "fallback" \in DOMAIN dist_config.map
                    THEN dist_config.map["fallback"] ELSE EmptyMap
        current_value == DefaultCurrentValue
        dist_type == dist_config.map["type"].str
    IN  IF dist_type = "normal"
        THEN Ok([mean |-> NumGet(fallback, "mean", current_value),
                 std |-> NumGet(fallback, "std", current_value \div 10)])
        ELSE IF dist_type = "triangular"
        THEN LET min_pct == NumGet(fallback, "min_pct", DefaultMinPct)
                 mode_pct == NumGet(fallback, "mode_pct", DefaultModePct)
                 max_pct == NumGet(fallback, "max_pct", DefaultMaxPct)
             IN  Ok([min |-> (current_value * (100 + min_pct)) \div 100,
                     mode |-> (current_value * (100 + mode_pct)) \div 100,
                     max |-> (current_value * (100 + max_pct)) \div 100])
        ELSE Raise("ValueError")

GetFallbackParams(cfg, variable_name, dist_config) ==
    LET fallback == IF "fallback" \in DOMAIN dist_config.map
                    THEN dist_config.map["fallback"] ELSE EmptyMap
        current_prices == Get(cfg, <<"current_prices">>, EmptyMap)
        current_value == NumGet(current_prices, variable_name, DefaultCurrentValue)
        dist_type == dist_config.map["type"].str
    IN  IF dist_type = "normal"
        THEN Ok([mean |-> NumGet(fallback, "mean", current_value),
                 std |-> NumGet(fallback, "std", current_value \div 10)])
        ELSE IF dist_type = "triangular"
        THEN LET min_pct == NumGet(fallback, "min_pct", DefaultMinPct)
                 mode_pct == NumGet(fallback, "mode_pct", DefaultModePct)
                 max_pct == NumGet(fallback, "max_pct", DefaultMaxPct)
             IN  Ok([min |-> (current_value * (100 + min_pct)) \div 100,
                     mode |-> (current_value * (100 + mode_pct)) \div 100,
                     max |-> (current_value * (100 + max_pct)) \div 100])
        ELSE Raise("ValueError")

----------------------------------------------------------------------------
(* UniversalMonteCarloEngine.setup_simulation *)

\* 1. Configurar variables: the loop, started at entry i with acc already
\* appended to self.variables_config.  An exception leaves what was appended.
RECURSIVE SetupVariables(_, _, _, _, _)
SetupVariables(cfg, hd, variables, i, acc) ==
    IF i > Len(variables) THEN [exc |-> "none", vc |-> acc]
    ELSE IF "name" \notin DOMAIN variables[i].map THEN [exc |-> "KeyError", vc |-> acc]
    ELSE LET var_name == variables[i].map["name"].str
             dist == GetDistributionConfig(cfg, var_name)
         IN  IF dist.exc # "none" THEN [exc |-> dist.exc, vc |-> acc]
             ELSE IF "type" \notin DOMAIN dist.val.map THEN [exc |-> "KeyError", vc |-> acc]
             ELSE LET params == IF var_name \in DOMAIN hd
                                THEN CalculateDistributionParams(hd[var_name], dist.val)
                                ELSE GetFallbackParams(cfg, var_name, dist.val)
                  IN  IF params.exc # "none" THEN [exc |-> params.exc, vc |-> acc]
                      ELSE SetupVariables(cfg, hd, variables, i + 1,
                               Append(acc, [name |-> var_name,
                                            distribution |-> dist.val.map["type"].str,
                                            params |-> params.val]))

\* The text of a business model is held as the bindings its execution makes,
\* in namespace order: [name, callable, fn]; a name is a sequence of atoms.
Namespace(model_code) == IF DOMAIN model_code = {"code"} THEN model_code.code ELSE <<>>

IsModelo(b) == Len(b.name) > 0 /\ b.name[1] = "modelo_" /\ b.callable

\* A lookup that takes the first callable of the namespace, whatever its name.
LoadModelAnyCallable(cfg, mf) ==
    LET ns == Namespace(Get(cfg, <<"business_model", ".", "template">>, PyStr("")))
        hits == {i \in 1..Len(ns) : ns[i].callable}
    IN  IF hits = {} THEN mf
        ELSE [fn |-> ns[CHOOSE i \in hits : \A j \in hits : i <= j].fn]

\* 2. Cargar modelo de negocio: the first callable whose name starts with
\* "modelo_" replaces the model function; none found leaves it as it was.
LoadModel(cfg, mf) ==
    LET ns == Namespace(Get(cfg, <<"business_model", ".", "template">>, PyStr("")))
        hits == {i \in 1..Len(ns) : IsModelo(ns[i])}
    IN  IF hits = {} THEN mf
        ELSE [fn |-> ns[CHOOSE i \in hits : \A j \in hits : i <= j].fn]

\* exec(model_code, namespace): the exception it raises, "none" when the text
\* runs.  A text that does not compile is [invalid |-> TRUE]; a value that is
\* no text at all is a TypeError.
ExecRaises(model_code) ==
    IF DOMAIN model_code \in {{"code"}, {"str"}} THEN "none"
    ELSE IF DOMAIN model_code = {"invalid"} THEN "SyntaxError"
    ELSE "TypeError"

\* setup_simulation: the exception raised (or "none"), the step it was raised
\* at, and the two fields as the call leaves them.
SetupSimulation(cfg, hd, vc, mf) ==
    LET v == SetupVariables(cfg, hd, GetVariables(cfg).list, 1, vc)
        model_code == Get(cfg, <<"business_model", ".", "template">>, PyStr(""))
    IN  IF v.exc # "none"
        THEN [exc |-> v.exc, raised_at |-> "variables",
              variables_config |-> v.vc, model_function |-> mf]
        ELSE IF ExecRaises(model_code) # "none"
        THEN [exc |-> ExecRaises(model_code), raised_at |-> "exec",
              variables_config |-> v.vc, model_function |-> mf]
        ELSE IF IsNone(LoadModel(cfg, mf))
        THEN [exc |-> "ValueError", raised_at |-> "model",
              variables_config |-> v.vc, model_function |-> LoadModel(cfg, mf)]
        ELSE [exc |-> "none", raised_at |-> "none",
              variables_config |-> v.vc, model_function |-> LoadModel(cfg, mf)]

----------------------------------------------------------------------------
(* UniversalMonteCarloEngine.load_historical_data.  The readers are outside  *)
(* the core: what a source gives is an answer [open, frames], open telling   *)
(* whether the file or connection could be used and frames[j] = [ok, df]     *)
(* whether its j-th sheet or table was read, and the 'valor' column read.    *)

DictSet(d, k, v) == [x \in DOMAIN d \cup {k} |-> IF x = k THEN v ELSE d[x]]

TablesOf(source, kind) ==
    LET key == IF kind = "excel" THEN "sheets" ELSE "tables"
    IN  IF key \in DOMAIN source.map THEN source.map[key].list ELSE <<>>

\* sheet_config['name'], ['date_column'], ['value_column'], ['maps_to_variable']
SheetKeys == {"name", "date_column", "value_column", "maps_to_variable"}

\* all([table, date_column, value_column, variable_name])
TableKeys == {"table", "date_column", "value_column", "maps_to_variable"}

\* not source_config.get(k) for some k of required
CredentialKeys == {"host", "database", "username", "password"}

AllTruthy(d, keys) == \A k \in keys : k \in DOMAIN d.map /\ Truthy(d.map[k])

\* The loop over the sheets (_load_from_excel) or tables (_load_from_database)
\* of one source.  A sheet entry without one of its keys raises KeyError; an
\* incomplete table entry is skipped, and only the database path skips an
\* empty frame.
RECURSIVE LoadTables(_, _, _, _, _)
LoadTables(hd, kind, tables, frames, j) ==
    IF j > Len(tables) THEN [exc |-> "none", hd |-> hd]
    ELSE IF kind = "excel" /\ ~(SheetKeys \subseteq DOMAIN tables[j].map)
    THEN [exc |-> "KeyError", hd |-> hd]
    ELSE IF kind = "database" /\ ~AllTruthy(tables[j], TableKeys)
    THEN LoadTables(hd, kind, tables, frames, j + 1)
    ELSE IF ~frames[j].ok \/ (kind = "database" /\ frames[j].df = <<>>)
    THEN LoadTables(hd, kind, tables, frames, j + 1)
    ELSE LoadTables(DictSet(hd, tables[j].map["maps_to_variable"].str, frames[j].df),
                    kind, tables, frames, j + 1)

RECURSIVE LoadSources(_, _, _, _)
LoadSources(hd, data_sources, answers, i) ==
    IF i > Len(data_sources) THEN [exc |-> "none", hd |-> hd]
    ELSE LET source == data_sources[i]
             source_type == IF "type" \in DOMAIN source.map
                            THEN source.map["type"] ELSE None
         IN  IF source_type = PyStr("excel") /\ "path" \notin DOMAIN source.map
             THEN [exc |-> "KeyError", hd |-> hd]
             ELSE IF source_type = PyStr("database") /\ ~AllTruthy(source, CredentialKeys)
             THEN LoadSources(hd, data_sources, answers, i + 1)
             ELSE IF source_type \in {PyStr("database"), PyStr("excel")}
             THEN IF ~answers[i].open
                  THEN LoadSources(hd, data_sources, answers, i + 1)
                  ELSE LET r == LoadTables(hd, source_type.str,
                                           TablesOf(source, source_type.str),
                                           answers[i].frames, 1)
                       IN  IF r.exc # "none" THEN r
                           ELSE LoadSources(r.hd, data_sources, answers, i + 1)
             ELSE LoadSources(hd, data_sources, answers, i + 1)

LoadHistoricalData(cfg, hd, answers) ==
    LET data_sources == Get(cfg, <<"data_sources">>, PyList(<<>>))
    IN  IF ~Truthy(data_sources) THEN [exc |-> "none", hd |-> hd]
        ELSE LoadSources(hd, data_sources.list, answers, 1)

----------------------------------------------------------------------------
(* The process-global generator behind np.random.  Its state is a residue;   *)
(* one variate is drawn per step; seeding sets the state from the seed.      *)

RngMod == 5

NextRng(s) == (s + 1) % RngMod

SeedRng(seed) == seed % RngMod

\* np.random.normal / triangular / uniform: one variate from the state u.
NormalVariate(p, u) ==
    IF p.mean = NaN \/ p.std = NaN THEN NaN
    ELSE p.mean + p.std * (u - RngMod \div 2)

TriangularVariate(p, u) ==
    IF p.min = NaN \/ p.mode = NaN \/ p.max = NaN THEN NaN
    ELSE IF 2 * u < RngMod
    THEN p.min + ((p.mode - p.min) * 2 * u) \div RngMod
    ELSE p.mode + ((p.max - p.mode) * (2 * u - RngMod)) \div RngMod

UniformVariate(p, u) ==
    IF p.min = NaN \/ p.max = NaN THEN NaN
    ELSE p.min + ((p.max - p.min) * u) \div RngMod

\* The argument checks numpy makes before drawing.
DrawRaises(dist, p, n_sims) ==
    \/ n_sims < 0
    \/ dist = "normal" /\ p.std # NaN /\ p.std < 0
    \/ dist = "triangular" /\ p.min # NaN /\ p.mode # NaN /\ p.max # NaN
         /\ (p.min > p.mode \/ p.mode > p.max \/ p.min = p.max)

\* The state after k draws from s.
RECURSIVE Advance(_, _)
Advance(s, k) == IF k <= 0 THEN s ELSE Advance(NextRng(s), k - 1)

DrawVector(dist, p, s, n_sims) ==
    [i \in 1..n_sims |->
        LET u == Advance(s, i)
        IN  IF dist = "normal" THEN NormalVariate(p, u)
            ELSE IF dist = "triangular" THEN TriangularVariate(p, u)
            ELSE UniformVariate(p, u)]

----------------------------------------------------------------------------
(* UniversalMonteCarloEngine.run *)

DefaultNSimulations == 10000

\* Generar samples para cada variable: the loop from entry i on.
RECURSIVE SampleAll(_, _, _, _, _)
SampleAll(vc, i, s, n_sims, samples) ==
    IF i > Len(vc) THEN [exc |-> "none", samples |-> samples, rng |-> s]
    ELSE IF vc[i].distribution \notin {"normal", "triangular", "uniform"}
    THEN SampleAll(vc, i + 1, s, n_sims, samples)
    ELSE IF DrawRaises(vc[i].distribution, vc[i].params, n_sims)
    THEN [exc |-> "ValueError", samples |-> samples, rng |-> s]
    ELSE SampleAll(vc, i + 1, Advance(s, n_sims), n_sims,
                   DictSet(samples, vc[i].name,
                           DrawVector(vc[i].distribution, vc[i].params, s, n_sims)))

\* sum(d[k] for k in keys)
RECURSIVE SumOver(_, _)
SumOver(d, keys) ==
    IF keys = {} THEN 0
    ELSE LET k == CHOOSE x \in keys : TRUE
         IN  d[k] + SumOver(d, keys \ {k})

\* The business models a template may supply, on one row of samples.
\*   margen:   business_params['p1'] - sum(variables.values())
\*   cociente: business_params['p1'] / variables['v1']
ModelEval(fn, variables, business_params) ==
    IF ~IsMap(business_params) THEN Raise("TypeError")
    ELSE IF "p1" \notin DOMAIN business_params.map THEN Raise("KeyError")
    ELSE LET p1 == business_params.map["p1"].int
         IN  IF fn = "margen"
             THEN IF \E k \in DOMAIN variables : variables[k] = NaN THEN Ok(NaN)
                  ELSE Ok(p1 - SumOver(variables, DOMAIN variables))
             ELSE IF "v1" \notin DOMAIN variables THEN Raise("KeyError")
             ELSE IF variables["v1"] = NaN THEN Ok(NaN)
             ELSE IF variables["v1"] = 0 THEN Raise("ZeroDivisionError")
             ELSE Ok(p1 \div variables["v1"])

\* self.model_function(variables, business_params) on row idx
RowOutcome(mf, samples, business_params, idx) ==
    IF IsNone(mf) THEN Raise("TypeError")
    ELSE ModelEval(mf.fn, [k \in DOMAIN samples |-> samples[k][idx]], business_params)

\* len(df_samples): the rows of pd.DataFrame(samples)
NRows(samples, n_sims) == IF DOMAIN samples = {} THEN 0 ELSE n_sims

\* Ejecutar modelo: the first row on which the model raises, 0 if none does.
FirstBad(mf, samples, business_params, rows) ==
    LET bad == {i \in 1..rows : RowOutcome(mf, samples, business_params, i).exc # "none"}
    IN  IF bad = {} THEN 0 ELSE CHOOSE i \in bad : \A j \in bad : i <= j

DataFrame(mf, samples, business_params, rows) ==
    [samples |-> samples,
     outcome |-> [i \in 1..rows |-> RowOutcome(mf, samples, business_params, i).val],
     simulation_id |-> [i \in 1..rows |-> i - 1]]

\* A run that keeps the rows evaluated before the model raised.
RunKeepsPartial(cfg, vc, mf, res, s) ==
    LET n_sims == Get(cfg, <<"simulation", ".", "n_simulations">>,
                      PyInt(DefaultNSimulations)).int
        seed == Get(cfg, <<"simulation", ".", "seed">>, None)
        s0 == IF Truthy(seed) THEN SeedRng(seed.int) ELSE s
        drawn == SampleAll(vc, 1, s0, n_sims, <<>>)
        business_params == Get(cfg, <<"business_parameters">>, None)
        rows == NRows(drawn.samples, n_sims)
        bad == FirstBad(mf, drawn.samples, business_params, rows)
    IN  IF drawn.exc # "none"
        THEN [exc |-> drawn.exc, results |-> res, rng |-> drawn.rng]
        ELSE IF bad # 0
        THEN [exc |-> RowOutcome(mf, drawn.samples, business_params, bad).exc,
              results |-> DataFrame(mf, drawn.samples, business_params, bad - 1),
              rng |-> drawn.rng]
        ELSE [exc |-> "none",
              results |-> DataFrame(mf, drawn.samples, business_params, rows),
              rng |-> drawn.rng]

\* A run that adds its rows to the frame stored by the run before it.
RunExtends(cfg, vc, mf, res, s) ==
    LET r == RunKeepsPartial(cfg, vc, mf, res, s)
    IN  IF r.exc # "none" THEN [exc |-> r.exc, results |-> res, rng |-> r.rng]
        ELSE IF IsNone(res) THEN r
        ELSE [exc |-> "none",
              results |-> [samples |-> r.results.samples,
                           outcome |-> res.outcome \o r.results.outcome,
                           simulation_id |->
                               [i \in 1..(Len(res.outcome) + Len(r.results.outcome)) |-> i - 1]],
              rng |-> r.rng]

\* run: the exception raised (or "none"), self.results and the generator
\* state it leaves.
Run(cfg, vc, mf, res, s) ==
    LET n_sims == Get(cfg, <<"simulation", ".", "n_simulations">>,
                      PyInt(DefaultNSimulations)).int
        seed == Get(cfg, <<"simulation", ".", "seed">>, None)
        s0 == IF Truthy(seed) THEN SeedRng(seed.int) ELSE s
        drawn == SampleAll(vc, 1, s0, n_sims, <<>>)
        business_params == Get(cfg, <<"business_parameters">>, None)
        rows == NRows(drawn.samples, n_sims)
        bad == FirstBad(mf, drawn.samples, business_params, rows)
    IN  IF drawn.exc # "none"
        THEN [exc |-> drawn.exc, results |-> res, rng |-> drawn.rng]
        ELSE IF bad # 0
        THEN [exc |-> RowOutcome(mf, drawn.samples, business_params, bad).exc,
              results |-> res, rng |-> drawn.rng]
        ELSE [exc |-> "none",
              results |-> DataFrame(mf, drawn.samples, business_params, rows),
              rng |-> drawn.rng]

----------------------------------------------------------------------------
(* Statistics are exact fractions [num, den] with den > 0; [0, 0] is NaN.    *)
(* A square root is rounded down to hundredths.                              *)

Rat(n, d) == [num |-> n, den |-> d]

RNaN == Rat(0, 0)

RECURSIVE Gcd(_, _)
Gcd(a, b) == IF b = 0 THEN a ELSE Gcd(b, a % b)

Abs(n) == IF n < 0 THEN 0 - n ELSE n

\* n / d in lowest terms, d > 0
Frac(n, d) == Rat(n \div Gcd(Abs(n), d), d \div Gcd(Abs(n), d))

IsRNaN(a) == a.den = 0

RLt(a, b) == ~IsRNaN(a) /\ ~IsRNaN(b) /\ a.num * b.den < b.num * a.den

RGt(a, b) == RLt(b, a)

RLe(a, b) == ~IsRNaN(a) /\ ~IsRNaN(b) /\ a.num * b.den <= b.num * a.den

REq(a, b) == ~IsRNaN(a) /\ ~IsRNaN(b) /\ a.num * b.den = b.num * a.den

RSub(a, b) ==
    IF IsRNaN(a) \/ IsRNaN(b) THEN RNaN
    ELSE Frac(a.num * b.den - b.num * a.den, a.den * b.den)

RMul(a, b) == IF IsRNaN(a) \/ IsRNaN(b) THEN RNaN ELSE Frac(a.num * b.num, a.den * b.den)

\* a / b for b # 0
RDiv(a, b) ==
    IF IsRNaN(a) \/ IsRNaN(b) THEN RNaN
    ELSE IF b.num > 0 THEN Frac(a.num * b.den, a.den * b.num)
    ELSE Frac(0 - a.num * b.den, 0 - a.den * b.num)

RAbs(a) == IF a.num < 0 THEN Rat(0 - a.num, a.den) ELSE a

\* sqrt(n / d), n >= 0, d > 0
RSqrt(n, d) == Rat(ISqrt((Frac(n, d).num * 10000) \div Frac(n, d).den), 100)

----------------------------------------------------------------------------
(* UniversalMonteCarloEngine.get_statistics *)

\* Series.quantile(p / 100), linear interpolation, on the sorted values a
Quantile(a, p) ==
    IF Len(a) = 0 THEN RNaN
    ELSE LET h == (Len(a) - 1) * p
             lo == h \div 100 + 1
             hi == IF lo < Len(a) THEN lo + 1 ELSE lo
         IN  Rat(100 * a[lo] + (h % 100) * (a[hi] - a[lo]), 100)

RMean(x) == IF Len(x) = 0 THEN RNaN ELSE Rat(SeqSum(x), Len(x))

RStd(x) ==
    IF Len(x) < 2 THEN RNaN
    ELSE LET n == Len(x)
             m == SeqSum(x)
         IN  RSqrt(SeqSum([i \in 1..n |-> (n * x[i] - m) * (n * x[i] - m)]),
                   n * n * (n - 1))

Stats(outcome) ==
    LET x == DropNa(outcome)
        a == SortAsc(x)
        q05 == Quantile(a, 5)
    IN  [mean |-> RMean(x),
         median |-> Quantile(a, 50),
         std |-> RStd(x),
         min |-> IF Len(x) = 0 THEN RNaN ELSE Rat(a[1], 1),
         max |-> IF Len(x) = 0 THEN RNaN ELSE Rat(a[Len(a)], 1),
         p10 |-> Quantile(a, 10),
         p25 |-> Quantile(a, 25),
         p50 |-> Quantile(a, 50),
         p75 |-> Quantile(a, 75),
         p90 |-> Quantile(a, 90),
         p95 |-> Quantile(a, 95),
         p99 |-> Quantile(a, 99),
         prob_loss |-> IF Len(outcome) = 0 THEN RNaN
                       ELSE Rat(Len(SelectSeq(x, LAMBDA v : v < 0)), Len(outcome)),
         var_95 |-> q05,
         cvar_95 |-> RMean(SelectSeq(x, LAMBDA v : RLe(Rat(v, 1), q05)))]

\* get_statistics without the check of self.results.
GetStatisticsUnguarded(res) ==
    IF IsNone(res) THEN Ok(Stats(<<>>)) ELSE Ok(Stats(res.outcome))

GetStatistics(res) ==
    IF IsNone(res) THEN Raise("RuntimeError") ELSE Ok(Stats(res.outcome))

----------------------------------------------------------------------------
(* UniversalMonteCarloEngine.sensitivity_analysis *)

\* Series.corr (Pearson) of x and y squared, over the rows where both are
\* numbers; NaN when a side is constant or fewer than two rows remain.
CorrSquared(x, y) ==
    LET keep == {i \in 1..Len(x) : x[i] # NaN /\ y[i] # NaN}
        n == Cardinality(keep)
        sx == SumOver(x, keep)
        sy == SumOver(y, keep)
        sxy == SumOver([i \in 1..Len(x) |-> x[i] * y[i]], keep)
        sxx == SumOver([i \in 1..Len(x) |-> x[i] * x[i]], keep)
        syy == SumOver([i \in 1..Len(x) |-> y[i] * y[i]], keep)
        cov == n * sxy - sx * sy
        vx == n * sxx - sx * sx
        vy == n * syy - sy * sy
    IN  IF n < 2 \/ vx = 0 \/ vy = 0 THEN RNaN ELSE Frac(cov * cov, vx * vy)

SensitivityRow(res, var_name) ==
    LET r2 == CorrSquared(res.samples[var_name], res.outcome)
    IN  [variable |-> var_name,
         correlation |-> IF IsRNaN(r2) THEN RNaN ELSE RSqrt(r2.num, r2.den),
         importance |-> r2]

\* rows is in an order sort_values('importance', ascending=False) may give:
\* importance descending, NaN last.
SortedDesc(rows) ==
    \A i \in 1..(Len(rows) - 1) :
        \/ IsRNaN(rows[i + 1].importance)
        \/ RLe(rows[i + 1].importance, rows[i].importance)

\* g keeps the rows whose importance is NaN in their order: sort_values
\* appends them, as they come, after the sorted ones.
KeepsNaNOrder(correlations, g) ==
    \A i, j \in 1..Len(correlations) :
        (/\ i < j
         /\ IsRNaN(correlations[g[i]].importance)
         /\ IsRNaN(correlations[g[j]].importance)) => g[i] < g[j]

\* The outcomes sensitivity_analysis may have: the sort is not a stable one,
\* so rows of equal importance come in any order.
SensitivityAnalysis(res, vc) ==
    IF IsNone(res) THEN {Raise("RuntimeError")}
    ELSE IF \E i \in 1..Len(vc) : vc[i].name \notin DOMAIN res.samples
    THEN {Raise("KeyError")}
    ELSE IF vc = <<>> THEN {Raise("KeyError")}
    ELSE LET correlations == [i \in 1..Len(vc) |-> SensitivityRow(res, vc[i].name)]
         IN  {Ok([i \in 1..Len(vc) |-> correlations[f[i]]]) :
                 f \in {g \in Permutations(1..Len(vc)) :
                           /\ SortedDesc([i \in 1..Len(vc) |-> correlations[g[i]]])
                           /\ KeepsNaNOrder(correlations, g)}}

----------------------------------------------------------------------------
(* UniversalMonteCarloEngine.evaluate_triggers.  stats is a dict from key    *)
(* to fraction; a threshold is configured in hundredths.  nivel is written   *)
(* without its accent.                                                       *)

RequiredKeys == <<"prob_loss", "mean", "std", "p10">>

BlockCriticalLossProb == 20

BlockHighVolatility == 30

BlockMarginProtection == 5

KeyCriticalLossProb == 25

KeyHighVolatility == 35

KeyMarginProtection == 5

\* Defaults conservadores si no hay configuracion
DefaultThresholds ==
    [map |-> [critical_loss_prob |-> PyInt(BlockCriticalLossProb),
              high_volatility |-> PyInt(BlockHighVolatility),
              margin_protection |-> PyInt(BlockMarginProtection)]]

Thresholds(cfg) ==
    LET thresholds == Get(cfg, <<"thresholds">>, EmptyMap)
    IN  IF ~Truthy(thresholds) THEN DefaultThresholds ELSE thresholds

\* ((value - threshold) / threshold) * 100, threshold # 0
ExcessPct(value, threshold) ==
    RMul(RDiv(RSub(value, threshold), threshold), Rat(100, 1))

Alert(nivel, metrica, valor_actual, umbral_permitido, mensaje) ==
    [nivel |-> nivel, metrica |-> metrica, valor_actual |-> valor_actual,
     umbral_permitido |-> umbral_permitido, mensaje |-> mensaje,
     timestamp |-> "now"]

\* REGLA 1: riesgo de perdida.  [exc, alerts]
Rule1(stats, thresholds) ==
    LET prob_loss == stats["prob_loss"]
        critical_threshold ==
            Rat(NumGet(thresholds, "critical_loss_prob", KeyCriticalLossProb), 100)
    IN  IF ~RGt(prob_loss, critical_threshold) THEN Ok(<<>>)
        ELSE IF critical_threshold.num = 0 THEN Raise("ZeroDivisionError")
        ELSE Ok(<<Alert(IF RGt(prob_loss, RMul(critical_threshold, Rat(3, 2)))
                        THEN "CRITICO" ELSE "ALTO",
                        "prob_loss", prob_loss, critical_threshold,
                        [text |-> IF RGt(prob_loss, RMul(critical_threshold, Rat(3, 2)))
                                  THEN "RIESGO SISTEMICO" ELSE "ALERTA DE RIESGO",
                         excess_pct |-> ExcessPct(prob_loss, critical_threshold)])>>)

\* REGLA 2: volatilidad operativa
Rule2(stats, thresholds) ==
    LET mean == stats["mean"]
        std == stats["std"]
        volatility_threshold ==
            Rat(NumGet(thresholds, "high_volatility", KeyHighVolatility), 100)
    IN  IF REq(mean, Rat(0, 1)) THEN Ok(<<>>)
        ELSE LET coef_variacion == RAbs(RDiv(std, mean))
             IN  IF ~RGt(coef_variacion, volatility_threshold) THEN Ok(<<>>)
                 ELSE IF volatility_threshold.num = 0 THEN Raise("ZeroDivisionError")
                 ELSE Ok(<<Alert("ALTO", "coef_variacion", coef_variacion,
                                 volatility_threshold,
                                 [text |-> "VOLATILIDAD ELEVADA",
                                  excess_pct |-> ExcessPct(coef_variacion,
                                                           volatility_threshold)])>>)

\* REGLA 3: proteccion de margen
Rule3(stats, thresholds) ==
    LET mean == stats["mean"]
        p10 == stats["p10"]
        margin_protection ==
            Rat(NumGet(thresholds, "margin_protection", KeyMarginProtection), 100)
    IN  IF RLt(p10, Rat(0, 1))
        THEN Ok(<<Alert("CRITICO", "p10", p10, Rat(0, 1),
                        [text |-> "EXPOSICION FINANCIERA", excess_pct |-> RNaN])>>)
        ELSE IF RGt(mean, Rat(0, 1)) /\ RLt(RDiv(p10, mean), margin_protection)
        THEN Ok(<<Alert("MEDIO", "margin_ratio", RDiv(p10, mean), margin_protection,
                        [text |-> "MARGEN REDUCIDO", excess_pct |-> RNaN])>>)
        ELSE Ok(<<>>)

\* The outcome of the three rules on complete statistics.
EvaluateRules(stats, thresholds) ==
    LET r1 == Rule1(stats, thresholds)
        r2 == Rule2(stats, thresholds)
        r3 == Rule3(stats, thresholds)
    IN  IF r1.exc # "none" THEN [exc |-> r1.exc, val |-> <<>>, missing |-> <<>>]
        ELSE IF r2.exc # "none" THEN [exc |-> r2.exc, val |-> <<>>, missing |-> <<>>]
        ELSE [exc |-> "none", val |-> r1.val \o r2.val \o r3.val, missing |-> <<>>]

\* A trigger evaluation that first asks for a completed run.
EvaluateTriggersNeedsRun(cfg, stats) ==
    LET missing == SelectSeq(RequiredKeys, LAMBDA k : k \notin DOMAIN stats)
    IN  IF IsNone(results) THEN [exc |-> "RuntimeError", val |-> <<>>, missing |-> <<>>]
        ELSE IF DOMAIN stats = {} THEN [exc |-> "ValueError", val |-> <<>>, missing |-> <<>>]
        ELSE IF missing # <<>> THEN [exc |-> "ValueError", val |-> <<>>, missing |-> missing]
        ELSE EvaluateRules(stats, Thresholds(cfg))

\* A trigger evaluation whose error names only the first missing key.
EvaluateTriggersNamesFirst(cfg, stats) ==
    LET missing == SelectSeq(RequiredKeys, LAMBDA k : k \notin DOMAIN stats)
    IN  IF DOMAIN stats = {} THEN [exc |-> "ValueError", val |-> <<>>, missing |-> <<>>]
        ELSE IF missing # <<>>
        THEN [exc |-> "ValueError", val |-> <<>>, missing |-> <<missing[1]>>]
        ELSE EvaluateRules(stats, Thresholds(cfg))

\* evaluate_triggers: [exc, val, missing], val the alerts returned, missing
\* the keys the ValueError names.
EvaluateTriggers(cfg, stats) ==
    LET missing == SelectSeq(RequiredKeys, LAMBDA k : k \notin DOMAIN stats)
    IN  IF DOMAIN stats = {} THEN [exc |-> "ValueError", val |-> <<>>, missing |-> <<>>]
        ELSE IF missing # <<>> THEN [exc |-> "ValueError", val |-> <<>>, missing |-> missing]
        ELSE EvaluateRules(stats, Thresholds(cfg))

----------------------------------------------------------------------------
(* Inputs of the tree specifications: YAML documents of nesting depth two *)

TreeKeys == {"a", "b"}

Leaves == {[int |-> 1], [str |-> "x"]}

MapsTo(vals) == UNION {{MapOf(f) : f \in [ks -> vals]} : ks \in SUBSET TreeKeys}

FlatMaps == MapsTo(Leaves)

Trees == MapsTo(Leaves \cup FlatMaps)

MaxPathLen == 3

PathAtoms == TreeKeys \cup {"."}

\* Path strings of at most MaxPathLen atoms (two dot-free runs never touch).
Paths ==
    {p \in UNION {[1..n -> PathAtoms] : n \in 0..MaxPathLen} :
        \A i \in 1..(Len(p) - 1) : p[i] = "." \/ p[i + 1] = "."}

Defaults == {None, [int |-> 999]}

----------------------------------------------------------------------------
(* ConfigurationManager.__init__ on two loaded documents *)

\* The two documents are loaded, the merged tree is not built yet.
InitMerge ==
    /\ template \in Trees
    /\ client \in Trees
    /\ config = None
    /\ op = [name |-> "load"]
    /\ NoEngine

\* A merge that writes into the template itself (result = template).
MergeArgumentsInPlace(t, c) == [template |-> MergeConfigs(t, c), client |-> c]

\* The two arguments as _merge_configs leaves them: result = template.copy()
\* at every depth, and every assignment of the loop is to result.
MergeArguments(t, c) == [template |-> t, client |-> c]

Construct ==
    /\ op.name = "load"
    /\ config' = MergeConfigs(template, client)
    /\ template' = MergeArguments(template, client).template
    /\ client' = MergeArguments(template, client).client
    /\ op' = [name |-> "merge"]
    /\ UNCHANGED engineVars

NextMerge == Construct

SpecMerge == InitMerge /\ [][NextMerge]_vars

\* A constructed manager; callers then read it with get.
InitGet ==
    /\ template \in Trees
    /\ client = MapOf([k \in {"b"} |-> MapOf([j \in {"a"} |-> [int |-> 2]])])
    /\ config = MergeConfigs(template, client)
    /\ op = [name |-> "merge"]
    /\ NoEngine

DoGet ==
    \E path \in Paths, default \in Defaults :
        /\ op' = [name |-> "get", path |-> path, default |-> default,
                  out |-> GetOutcome(config, path, default)]
        /\ UNCHANGED <<managerVars, engineVars>>

NextGet == DoGet

SpecGet == InitGet /\ [][NextGet]_vars

----------------------------------------------------------------------------
(* Inputs of the resolver specification: template and client documents of   *)
(* the shape the manager reads, each section present, empty or absent       *)

Absent == [absent |-> TRUE]

\* The mapping holding the fields of rec that are not Absent.
Doc(rec) == MapOf([k \in {j \in DOMAIN rec : rec[j] # Absent} |-> rec[k]])

NormalSpec == Doc([type |-> PyStr("normal")])

TriangularSpec == Doc([type |-> PyStr("triangular")])

VarEntry(name) == Doc([name |-> PyStr(name), description |-> PyStr("d")])

ResolverTemplates ==
    {Doc([industry |-> ind, common_variables |-> cv,
          default_distributions |-> dd, business_model |-> bm]) :
        ind \in {Absent, Doc([name |-> PyStr("")]), Doc([name |-> PyStr("alimentos")])},
        cv \in {Absent, PyList(<<>>), PyList(<<VarEntry("v1")>>),
                PyList(<<VarEntry("v1"), Doc([description |-> PyStr("d")]),
                         VarEntry("v2")>>)},
        dd \in {Absent, Doc([v1 |-> EmptyMap, v2 |-> NormalSpec]),
                Doc([v1 |-> NormalSpec, v2 |-> NormalSpec])},
        bm \in {Absent,
                Doc([parameters_required |-> PyList(<<PyStr("p1"), PyStr("p2")>>)])}}

ResolverClients ==
    {Doc([client |-> cl, business_parameters |-> bp, simulation |-> sim,
          custom_distributions |-> top]) :
        cl \in {Absent, Doc([name |-> PyStr("c")]),
                Doc([name |-> PyStr("c"), industry |-> PyStr("alimentos")])},
        bp \in {Absent, Doc([p1 |-> PyInt(45)]), Doc([p1 |-> PyInt(0), p2 |-> None]),
                Doc([p1 |-> PyInt(45), p2 |-> PyInt(10)])},
        sim \in {Absent, Doc([custom_distributions |-> Doc([v1 |-> TriangularSpec])]),
                 Doc([custom_distributions |-> Doc([v1 |-> EmptyMap, v2 |-> TriangularSpec])])},
        top \in {Absent, Doc([v1 |-> TriangularSpec, v2 |-> TriangularSpec])}}

VariableNames == {"v1", "v2", "v3"}

----------------------------------------------------------------------------
(* A constructed ConfigurationManager and the calls made on it *)

InitResolver ==
    /\ template \in ResolverTemplates
    /\ client \in ResolverClients
    /\ config = MergeConfigs(template, client)
    /\ op = [name |-> "merge"]
    /\ NoEngine

DoGetDistributionConfig ==
    \E variable_name \in VariableNames :
        /\ op' = [name |-> "get_distribution_config", arg |-> variable_name,
                  out |-> GetDistributionConfig(config, variable_name)]
        /\ UNCHANGED <<managerVars, engineVars>>

DoValidate ==
    /\ op' = [name |-> "validate", out |-> Validate(config)]
    /\ UNCHANGED <<managerVars, engineVars>>

NextResolver == DoGetDistributionConfig \/ DoValidate

SpecResolver == InitResolver /\ [][NextResolver]_vars

----------------------------------------------------------------------------
(* Inputs of the engine specification *)

MaxSims == 2

MaxSpecs == 2

MargenCode == [code |-> <<[name |-> <<"modelo_", "margen">>, callable |-> TRUE,
                           fn |-> "margen"]>>]

CocienteCode == [code |-> <<[name |-> <<"calcular">>, callable |-> TRUE, fn |-> "calcular"],
                            [name |-> <<"modelo_", "cociente">>, callable |-> TRUE,
                             fn |-> "cociente"]>>]

\* v1 is normal around 10 with std 10 unless a history says otherwise.
EngineTemplates ==
    {Doc([industry |-> Doc([name |-> PyStr("alimentos")]),
          common_variables |-> PyList(<<VarEntry("v1")>>),
          default_distributions |->
              Doc([v1 |-> Doc([type |-> PyStr("normal"),
                               fallback |-> Doc([mean |-> PyInt(10), std |-> PyInt(10)])])]),
          business_model |->
              Doc([parameters_required |-> PyList(<<PyStr("p1")>>), template |-> code])]) :
        code \in {MargenCode, CocienteCode}}

ExcelSource ==
    Doc([type |-> PyStr("excel"), path |-> PyStr("costos.xlsx"),
         sheets |-> PyList(<<Doc([name |-> PyStr("Costos"),
                                  date_column |-> PyStr("Fecha"),
                                  value_column |-> PyStr("Costo"),
                                  maps_to_variable |-> PyStr("v1")])>>)])

EngineClientsValid ==
    {Doc([client |-> Doc([name |-> PyStr("c"), industry |-> PyStr("alimentos")]),
          business_parameters |-> Doc([p1 |-> PyInt(45)]),
          simulation |-> Doc([n_simulations |-> PyInt(n), seed |-> seed]),
          data_sources |-> ds]) :
        n \in 1..MaxSims, seed \in {Absent, PyInt(0), PyInt(1)},
        ds \in {Absent, PyList(<<ExcelSource>>)}}

EngineClientsInvalid ==
    {Doc([client |-> Doc([name |-> PyStr("c")]),
          business_parameters |-> Doc([p1 |-> PyInt(45)]),
          simulation |-> Doc([n_simulations |-> PyInt(1)])]),
     Doc([client |-> Doc([name |-> PyStr("c")]),
          simulation |-> Doc([n_simulations |-> PyInt(1),
                              custom_distributions |-> Doc([v1 |-> EmptyMap])]),
          default_distributions |-> Doc([v1 |-> None])])}

\* What the spreadsheet reader may give for the one sheet of ExcelSource.
SourceAnswers ==
    {<<[open |-> FALSE, frames |-> <<>>]>>,
     <<[open |-> TRUE, frames |-> <<[ok |-> FALSE, df |-> <<>>]>>]>>,
     <<[open |-> TRUE, frames |-> <<[ok |-> TRUE, df |-> <<0, NaN, 20>>]>>]>>}

\* Summaries a caller may hand to evaluate_triggers.
HandMadeStats ==
    {<<>>,
     [prob_loss |-> Rat(5, 100)],
     [prob_loss |-> Rat(5, 100), mean |-> Rat(100, 1), std |-> Rat(10, 1),
      p10 |-> Rat(80, 1)],
     [prob_loss |-> Rat(35, 100), mean |-> Rat(300, 1), std |-> Rat(150, 1),
      p10 |-> Rat(-50, 1)]}

----------------------------------------------------------------------------
(* UniversalMonteCarloEngine: construction and the calls made on the engine *)

InitEngine ==
    /\ template \in EngineTemplates
    /\ client \in EngineClientsValid \cup EngineClientsInvalid
    /\ config = MergeConfigs(template, client)
    /\ op = [name |-> "merge"]
    /\ engine = "none"
    /\ historical_data = <<>>
    /\ variables_config = <<>>
    /\ model_function = None
    /\ results = None
    /\ rng \in 0..(RngMod - 1)

\* __init__ on a configuration that validates.
EngineInitAlwaysOk(cfg) == [exc |-> "none", errors |-> Validate(cfg).errors]

\* __init__: raises ValueError carrying every message when validate fails.
EngineInitOutcome(cfg) ==
    IF ~Validate(cfg).is_valid
    THEN [exc |-> "ValueError", errors |-> Validate(cfg).errors]
    ELSE [exc |-> "none", errors |-> <<>>]

EngineInit ==
    /\ op.name # "load"
    /\ engine = "none"
    /\ engine' = IF EngineInitOutcome(config).exc = "none" THEN "ok" ELSE "failed"
    /\ op' = [name |-> "__init__", out |-> EngineInitOutcome(config)]
    /\ UNCHANGED <<managerVars, historical_data, variables_config, model_function,
                   results, rng>>

DoLoadHistoricalData ==
    /\ engine = "ok"
    /\ \E answers \in SourceAnswers :
          LET r == LoadHistoricalData(config, historical_data, answers)
          IN  /\ historical_data' = r.hd
              /\ op' = [name |-> "load_historical_data", out |-> [exc |-> r.exc]]
    /\ UNCHANGED <<managerVars, engine, variables_config, model_function, results, rng>>

DoSetupSimulation ==
    /\ engine = "ok"
    /\ Len(variables_config) + Len(GetVariables(config).list) <= MaxSpecs
    /\ LET r == SetupSimulation(config, historical_data, variables_config, model_function)
       IN  /\ variables_config' = r.variables_config
           /\ model_function' = r.model_function
           /\ op' = [name |-> "setup_simulation",
                     out |-> [exc |-> r.exc, raised_at |-> r.raised_at]]
    /\ UNCHANGED <<managerVars, engine, historical_data, results, rng>>

DoRun ==
    /\ engine = "ok"
    /\ LET r == Run(config, variables_config, model_function, results, rng)
       IN  /\ results' = r.results
           /\ rng' = r.rng
           /\ op' = [name |-> "run", out |-> [exc |-> r.exc]]
    /\ UNCHANGED <<managerVars, engine, historical_data, variables_config, model_function>>

DoGetStatistics ==
    /\ engine = "ok"
    /\ op' = [name |-> "get_statistics", out |-> GetStatistics(results)]
    /\ UNCHANGED <<managerVars, engineVars>>

DoSensitivityAnalysis ==
    /\ engine = "ok"
    /\ \E out \in SensitivityAnalysis(results, variables_config) :
          op' = [name |-> "sensitivity_analysis", out |-> out]
    /\ UNCHANGED <<managerVars, engineVars>>

DoEvaluateTriggers ==
    /\ engine = "ok"
    /\ \E stats \in HandMadeStats \cup
                    (IF op.name = "get_statistics" /\ op.out.exc = "none"
                     THEN {op.out.val} ELSE {}) :
          op' = [name |-> "evaluate_triggers", stats |-> stats,
                 out |-> EvaluateTriggers(config, stats)]
    /\ UNCHANGED <<managerVars, engineVars>>

NextEngine ==
    \/ EngineInit
    \/ DoLoadHistoricalData
    \/ DoSetupSimulation
    \/ DoRun
    \/ DoGetStatistics
    \/ DoSensitivityAnalysis
    \/ DoEvaluateTriggers

SpecEngine == InitEngine /\ [][NextEngine]_vars

----------------------------------------------------------------------------
(* C1 *)

\* r is the right-biased recursive merge of the mappings t and c.
RECURSIVE IsMergeOf(_, _, _)
IsMergeOf(r, t, c) ==
    /\ IsMap(r)
    /\ DOMAIN r.map = DOMAIN t.map \cup DOMAIN c.map
    /\ \A k \in DOMAIN c.map :
          IF k \in DOMAIN t.map /\ IsMap(t.map[k]) /\ IsMap(c.map[k])
          THEN IsMergeOf(r.map[k], t.map[k], c.map[k])
          ELSE r.map[k] = c.map[k]
    /\ \A k \in DOMAIN t.map \ DOMAIN c.map : r.map[k] = t.map[k]

\* C1: the tree the constructor builds is the recursive right-biased merge of
\* template and client: at a client key with mappings on both sides the
\* merge of the two, at every other client key the client value, at a key the
\* client lacks the template value; with an empty client it is the template.
C1_MergeRightBiased ==
    op.name = "merge" =>
        /\ IsMergeOf(config, template, client)
        /\ (client = EmptyMap => config = template)

\* Both sides hold a mapping at a key and the merged mapping is neither of
\* them, and at another key a client leaf replaced a template mapping.
C1_Witness ==
    /\ op.name = "merge"
    /\ \E k \in DOMAIN client.map \cap DOMAIN template.map :
          /\ IsMap(client.map[k]) /\ IsMap(template.map[k])
          /\ config.map[k] \notin {client.map[k], template.map[k]}
    /\ \E k \in DOMAIN client.map \cap DOMAIN template.map :
          /\ ~IsMap(client.map[k]) /\ IsMap(template.map[k])
          /\ config.map[k] = client.map[k]

----------------------------------------------------------------------------
(* C2 *)

DotsUpTo(path, i) == Cardinality({d \in 1..i : path[d] = "."})

\* Position of the j-th "." of path; 0 before the first step, Len + 1 after
\* the last.
Cut(path, j) ==
    IF j = 0 THEN 0
    ELSE IF j > DotsUpTo(path, Len(path)) THEN Len(path) + 1
    ELSE CHOOSE i \in 1..Len(path) : path[i] = "." /\ DotsUpTo(path, i) = j

NSteps(path) == DotsUpTo(path, Len(path)) + 1

\* The j-th step of a dotted path: the text between two consecutive dots.
Step(path, j) ==
    IF Cut(path, j) = Cut(path, j - 1) + 1 THEN "" ELSE path[Cut(path, j - 1) + 1]

\* Every step from j on exists below v, and the value found there.
RECURSIVE Descend(_, _, _)
Descend(v, path, j) ==
    IF j > NSteps(path) THEN [found |-> TRUE, val |-> v]
    ELSE IF IsMap(v) /\ Step(path, j) \in DOMAIN v.map
         THEN Descend(v.map[Step(path, j)], path, j + 1)
         ELSE [found |-> FALSE, val |-> None]

\* C2: get never raises; it returns the value at the dotted path when every
\* step exists, and the caller's default when a step is missing or a
\* non-mapping is reached before the path is exhausted.
C2_GetTotal ==
    op.name = "get" =>
        /\ op.out.exc = "none"
        /\ LET d == Descend(config, op.path, 1)
           IN  op.out.val = IF d.found THEN d.val ELSE op.default

\* A get whose second step meets a leaf, and which returned the default.
C2_Witness ==
    /\ op.name = "get"
    /\ NSteps(op.path) = 2
    /\ Step(op.path, 1) \in DOMAIN config.map
    /\ ~IsMap(config.map[Step(op.path, 1)])
    /\ op.default = [int |-> 999]
    /\ op.out.val = op.default

----------------------------------------------------------------------------
(* C3 *)

CustomPath(name) == <<"custom_distributions", ".">> \o StrAtoms(name)

SimulationCustomPath(name) ==
    <<"simulation", ".", "custom_distributions", ".">> \o StrAtoms(name)

DefaultPath(name) == <<"default_distributions", ".">> \o StrAtoms(name)

\* A non-empty value stands at the dotted path.
NonEmptyAt(cfg, path) ==
    Descend(cfg, path, 1).found /\ Truthy(Descend(cfg, path, 1).val)

----------------------------------------------------------------------------
(* C4 *)

ListAt(cfg, path) ==
    IF Descend(cfg, path, 1).found THEN Descend(cfg, path, 1).val.list ELSE <<>>

RequiredParams(cfg) == ListAt(cfg, <<"business_model", ".", "parameters_required">>)

DeclaredVariables(cfg) == ListAt(cfg, <<"common_variables">>)

ParamMissing(cfg, param) ==
    LET d == Descend(cfg, <<"business_parameters", ".">> \o StrAtoms(param), 1)
    IN  ~d.found \/ IsNone(d.val)

\* The defects of a configuration, each one an item validate has to report.
Defects(cfg) ==
    {[kind |-> "industry", idx |-> 0] : x \in
        {y \in {0} : ~NonEmptyAt(cfg, <<"client", ".", "industry">>)}}
    \cup {[kind |-> "industry.name", idx |-> 0] : x \in
        {y \in {0} : ~NonEmptyAt(cfg, <<"industry", ".", "name">>)}}
    \cup {[kind |-> "common_variables", idx |-> 0] : x \in
        {y \in {0} : ~NonEmptyAt(cfg, <<"common_variables">>)}}
    \cup {[kind |-> "param", idx |-> i] : i \in
        {j \in 1..Len(RequiredParams(cfg)) :
            ParamMissing(cfg, RequiredParams(cfg)[j].str)}}
    \cup {[kind |-> "variable", idx |-> i] : i \in
        {j \in 1..Len(DeclaredVariables(cfg)) :
            /\ Truthy(VarName(DeclaredVariables(cfg)[j]))
            /\ GetDistributionConfig(cfg, VarName(DeclaredVariables(cfg)[j]).str).exc
                   # "none"}}

DefectMsg(cfg, d) ==
    CASE d.kind = "industry" -> IndustryMsg
      [] d.kind = "industry.name" -> IndustryNameMsg
      [] d.kind = "common_variables" -> CommonVariablesMsg
      [] d.kind = "param" -> ParamMsg(RequiredParams(cfg)[d.idx].str)
      [] d.kind = "variable" ->
            DistNotFoundMsg(VarName(DeclaredVariables(cfg)[d.idx]).str)

\* C4: validate reports every defect of the configuration, one entry each,
\* whatever other defects precede it, and is_valid holds exactly when the
\* list is empty.
C4_ValidateCollectsAll ==
    op.name = "validate" =>
        /\ Len(op.out.errors) = Cardinality(Defects(config))
        /\ \A d \in Defects(config) :
              \E i \in 1..Len(op.out.errors) : op.out.errors[i] = DefectMsg(config, d)
        /\ op.out.is_valid <=> op.out.errors = <<>>

\* A validation that met a missing industry, a missing parameter and an
\* unresolvable variable at once, and reported all of them.
C4_Witness ==
    /\ op.name = "validate"
    /\ \E d \in Defects(config) : d.kind = "industry"
    /\ \E d \in Defects(config) : d.kind = "param"
    /\ \E d \in Defects(config) : d.kind = "variable"
    /\ Len(op.out.errors) >= 4

----------------------------------------------------------------------------
(* C5 *)

\* C5: a configuration with at least one defect never yields an engine: the
\* constructor fails with a ValueError carrying every collected message, and
\* nothing is ever loaded, set up or sampled for that configuration.
C5_InvalidConfigYieldsNoEngine ==
    Defects(config) # {} =>
        /\ engine # "ok"
        /\ op.name \in {"merge", "__init__"}
        /\ historical_data = <<>> /\ variables_config = <<>> /\ results = None
        /\ op.name = "__init__" =>
              /\ op.out.exc = "ValueError"
              /\ Len(op.out.errors) = Cardinality(Defects(config))
              /\ \A d \in Defects(config) :
                    \E i \in 1..Len(op.out.errors) :
                        op.out.errors[i] = DefectMsg(config, d)

\* A constructor that failed on a configuration with several defects.
C5_Witness ==
    /\ engine = "failed"
    /\ op.name = "__init__"
    /\ Cardinality(Defects(config)) >= 2
    /\ Len(op.out.errors) >= 2

----------------------------------------------------------------------------
(* C6 *)

\* simulation.seed holds a value.
SeedSupplied(cfg) ==
    /\ Descend(cfg, <<"simulation", ".", "seed">>, 1).found
    /\ ~IsNone(Descend(cfg, <<"simulation", ".", "seed">>, 1).val)

\* C6: with a seed supplied, a completed run that follows a completed run on
\* the same engine reproduces its sample and outcome vectors, whatever the
\* generator state the first one left.
C6_SeededRunsRepeat ==
    [][(/\ SeedSupplied(config)
        /\ op.name = "run" /\ op.out.exc = "none"
        /\ op'.name = "run" /\ op'.out.exc = "none")
       => results' = results]_vars

----------------------------------------------------------------------------
(* C7 *)

\* The configured sample count.
ConfiguredN(cfg) == Descend(cfg, <<"simulation", ".", "n_simulations">>, 1).val.int

\* C7: the stored run has exactly N rows: a sample vector of length N for
\* every configured variable, an outcome vector of length N and the index
\* 0..N-1.
C7_CompletedRunHasNRows ==
    results # None =>
        /\ Len(results.outcome) = ConfiguredN(config)
        /\ results.simulation_id = [i \in 1..ConfiguredN(config) |-> i - 1]
        /\ \A j \in 1..Len(DeclaredVariables(config)) :
              LET name == VarName(DeclaredVariables(config)[j]).str
              IN  /\ name \in DOMAIN results.samples
                  /\ Len(results.samples[name]) = ConfiguredN(config)

----------------------------------------------------------------------------
(* C8 *)

\* C8: a run that raises leaves the stored results exactly as they were: no
\* partial run is recorded.
C8_FailedRunKeepsResults ==
    [][(op'.name = "run" /\ op'.out.exc # "none") => results' = results]_vars

\* The model raised on a row of a run made after a completed one, whose
\* results are still the stored ones.
C8_Witness ==
    /\ op.name = "run"
    /\ op.out.exc = "ZeroDivisionError"
    /\ results # None
    /\ Len(results.outcome) = ConfiguredN(config)

----------------------------------------------------------------------------
(* C9 *)

\* C9: while no run has completed, get_statistics and sensitivity_analysis
\* fail with RuntimeError and change nothing of the engine; once results are
\* stored neither fails with RuntimeError.
C9_StatisticsNeedCompletedRun ==
    [][op'.name \in {"get_statistics", "sensitivity_analysis"} =>
          /\ results = None =>
                op'.out.exc = "RuntimeError" /\ UNCHANGED <<managerVars, engineVars>>
          /\ results # None => op'.out.exc # "RuntimeError"]_vars

\* Statistics asked for after a successful setup and before any run.
C9_Witness ==
    /\ op.name = "get_statistics"
    /\ op.out.exc = "RuntimeError"
    /\ variables_config # <<>>
    /\ results = None

----------------------------------------------------------------------------
(* C10 *)

\* C10 as stated: trigger evaluation on an engine without a completed run
\* fails with RuntimeError.
C10_AsStated ==
    (op.name = "evaluate_triggers" /\ results = None) => op.out.exc = "RuntimeError"

\* C10: trigger evaluation never fails with RuntimeError, run or no run; it
\* fails with ValueError exactly when the statistics handed to it are empty
\* or lack a required key, naming the keys that are missing.
C10_TriggersIgnoreRunState ==
    op.name = "evaluate_triggers" =>
        LET absent == {k \in {"prob_loss", "mean", "std", "p10"} : k \notin DOMAIN op.stats}
        IN  /\ op.out.exc # "RuntimeError"
            /\ op.out.exc = "ValueError" <=> absent # {}
            /\ op.out.exc = "ValueError" /\ DOMAIN op.stats # {} =>
                  {op.out.missing[i] : i \in 1..Len(op.out.missing)} = absent

\* Alerts returned on an engine that never ran.
C10_Witness ==
    /\ op.name = "evaluate_triggers"
    /\ results = None
    /\ op.out.exc = "none"
    /\ Len(op.out.val) >= 1

----------------------------------------------------------------------------
(* Inputs of the trigger specification: thresholds a client may configure,   *)
(* in hundredths, and the summaries handed to evaluate_triggers.             *)

ThresholdSections ==
    {Absent, EmptyMap} \cup
    {Doc([critical_loss_prob |-> c, high_volatility |-> h, margin_protection |-> g]) :
        c \in {Absent, PyInt(0), PyInt(25)},
        h \in {Absent, PyInt(0), PyInt(32)},
        g \in {Absent, PyInt(5)}}

TriggerClients ==
    {Doc([client |-> Doc([name |-> PyStr("c"), industry |-> PyStr("alimentos")]),
          business_parameters |-> Doc([p1 |-> PyInt(45)]),
          thresholds |-> th]) : th \in ThresholdSections}

CompleteStats ==
    {[prob_loss |-> Rat(pl, 100), mean |-> Rat(m, 1), std |-> Rat(sd, 1), p10 |-> Rat(p, 1)] :
        pl \in {0, 22, 25, 30, 35, 40}, m \in {-100, 0, 100}, sd \in {10, 32, 50},
        p \in {-50, 4, 5}}

\* Summaries lacking some of the keys, the empty one included.
PartialStats ==
    {[k \in ks |-> Rat(1, 1)] : ks \in (SUBSET {"prob_loss", "mean", "std", "p10", "max"})
                                       \ {{"prob_loss", "mean", "std", "p10"},
                                          {"prob_loss", "mean", "std", "p10", "max"}}}

TriggerStats == CompleteStats \cup PartialStats

InitTriggers ==
    /\ template \in {t \in EngineTemplates :
                       Get(t, <<"business_model", ".", "template">>, None) = MargenCode}
    /\ client \in TriggerClients
    /\ config = MergeConfigs(template, client)
    /\ op = [name |-> "merge"]
    /\ NoEngine

\* evaluate_triggers(stats) on a summary the caller supplies.
DoEvaluateTriggersOn ==
    /\ engine = "ok"
    /\ \E stats \in TriggerStats :
          op' = [name |-> "evaluate_triggers", stats |-> stats,
                 out |-> EvaluateTriggers(config, stats)]
    /\ UNCHANGED <<managerVars, engineVars>>

NextTriggers == EngineInit \/ DoEvaluateTriggersOn

SpecTriggers == InitTriggers /\ [][NextTriggers]_vars

----------------------------------------------------------------------------
(* C11 *)

\* The required statistics a summary lacks.
Lacking(stats) == {k \in {"prob_loss", "mean", "std", "p10"} : k \notin DOMAIN stats}

\* C11 as stated: every summary lacking a required key, the empty one
\* included, fails with an error naming exactly the missing keys.
C11_AsStated ==
    (op.name = "evaluate_triggers" /\ Lacking(op.stats) # {}) =>
        /\ op.out.exc = "ValueError"
        /\ op.out.val = <<>>
        /\ {op.out.missing[i] : i \in 1..Len(op.out.missing)} = Lacking(op.stats)

\* C11: a summary lacking a required key always fails with ValueError and
\* returns no trigger; a non-empty one names exactly the missing keys, each
\* once, and the empty one fails with the error for an empty summary, which
\* names no key.
C11_IncompleteStatsFail ==
    (op.name = "evaluate_triggers" /\ Lacking(op.stats) # {}) =>
        /\ op.out.exc = "ValueError"
        /\ op.out.val = <<>>
        /\ DOMAIN op.stats # {} =>
              /\ {op.out.missing[i] : i \in 1..Len(op.out.missing)} = Lacking(op.stats)
              /\ Len(op.out.missing) = Cardinality(Lacking(op.stats))
        /\ DOMAIN op.stats = {} => op.out.missing = <<>>

\* A summary with two of the four keys, refused with both missing ones named.
C11_Witness ==
    /\ op.name = "evaluate_triggers"
    /\ DOMAIN op.stats = {"mean", "p10"}
    /\ op.out.exc = "ValueError"
    /\ Len(op.out.missing) = 2

----------------------------------------------------------------------------
(* C12 *)

\* A call on a summary holding the four required statistics.
CompleteCall == op.name = "evaluate_triggers" /\ Lacking(op.stats) = {}

\* The threshold key is configured, and its value in hundredths.
Configured(cfg, key) == Descend(cfg, <<"thresholds", ".", key>>, 1).found

ConfiguredValue(cfg, key) == Descend(cfg, <<"thresholds", ".", key>>, 1).val.int

\* The positions of the returned triggers whose metric is one of metrics.
TriggersOn(metrics) ==
    IF op.out.exc # "none" THEN {}
    ELSE {i \in 1..Len(op.out.val) : op.out.val[i].metrica \in metrics}

Mag(n) == IF n < 0 THEN 0 - n ELSE n

\* prob_loss > factor/2 times the threshold t (hundredths)
LossAbove(stats, t, factor) ==
    stats["prob_loss"].num * 200 > factor * t * stats["prob_loss"].den

\* C12: with critical_loss_prob configured, a prob_loss trigger is returned
\* exactly when prob_loss exceeds it, CRITICO above 1.5 times the threshold
\* and ALTO otherwise.
C12_LossRule ==
    (CompleteCall /\ Configured(config, "critical_loss_prob")) =>
        LET t == ConfiguredValue(config, "critical_loss_prob")
        IN  /\ TriggersOn({"prob_loss"}) # {} <=> LossAbove(op.stats, t, 2)
            /\ Cardinality(TriggersOn({"prob_loss"})) <= 1
            /\ \A i \in TriggersOn({"prob_loss"}) :
                  op.out.val[i].nivel =
                      IF LossAbove(op.stats, t, 3) THEN "CRITICO" ELSE "ALTO"

----------------------------------------------------------------------------
(* C13 *)

\* |std / mean| > t hundredths, mean # 0
VolatilityAbove(stats, t) ==
    Mag(stats["std"].num * stats["mean"].den) * 100
        > t * Mag(stats["std"].den * stats["mean"].num)

\* C13: with high_volatility configured, nothing is returned for the
\* volatility rule when mean = 0; otherwise exactly one ALTO trigger on
\* coef_variacion with value |std / mean| is returned exactly when that value
\* exceeds the threshold.
C13_VolatilityRule ==
    (CompleteCall /\ Configured(config, "high_volatility")) =>
        LET t == ConfiguredValue(config, "high_volatility")
            fires == op.stats["mean"].num # 0 /\ VolatilityAbove(op.stats, t)
        IN  /\ Cardinality(TriggersOn({"coef_variacion"})) = IF fires THEN 1 ELSE 0
            /\ \A i \in TriggersOn({"coef_variacion"}) :
                  /\ op.out.val[i].nivel = "ALTO"
                  /\ op.out.val[i].valor_actual.num
                         * Mag(op.stats["std"].den * op.stats["mean"].num)
                     = op.out.val[i].valor_actual.den
                         * Mag(op.stats["std"].num * op.stats["mean"].den)

----------------------------------------------------------------------------
(* C14 *)

\* mean > 0 and p10 / mean < t hundredths
MarginBelow(stats, t) ==
    /\ stats["mean"].num > 0
    /\ stats["p10"].num * stats["mean"].den * 100 < t * stats["p10"].den * stats["mean"].num

\* C14: with margin_protection configured, p10 < 0 gives one CRITICO trigger
\* on p10 and no MEDIO one; p10 >= 0 gives one MEDIO trigger on margin_ratio
\* exactly when mean > 0 and p10 / mean is below the threshold, and no
\* CRITICO one.
C14_MarginRule ==
    (CompleteCall /\ Configured(config, "margin_protection")) =>
        LET t == ConfiguredValue(config, "margin_protection")
            negative == op.stats["p10"].num < 0
        IN  /\ Cardinality(TriggersOn({"p10"})) = IF negative THEN 1 ELSE 0
            /\ Cardinality(TriggersOn({"margin_ratio"})) =
                   IF ~negative /\ MarginBelow(op.stats, t) THEN 1 ELSE 0
            /\ \A i \in TriggersOn({"p10"}) : op.out.val[i].nivel = "CRITICO"
            /\ \A i \in TriggersOn({"margin_ratio"}) : op.out.val[i].nivel = "MEDIO"

----------------------------------------------------------------------------
(* C15 *)

\* The metrics of the returned triggers, in order.
MetricsReturned == [i \in 1..Len(op.out.val) |-> op.out.val[i].metrica]

\* C15: with the three thresholds configured, every call on complete
\* statistics returns, for each rule whose own condition holds, one trigger,
\* in the order loss, volatility, margin, whatever the other rules do: three
\* when all conditions hold and none exactly when no condition holds.
C15_RulesIndependent ==
    (/\ CompleteCall
     /\ \A k \in {"critical_loss_prob", "high_volatility", "margin_protection"} :
           Configured(config, k)) =>
        LET loss == LossAbove(op.stats, ConfiguredValue(config, "critical_loss_prob"), 2)
            volatility ==
                /\ op.stats["mean"].num # 0
                /\ VolatilityAbove(op.stats, ConfiguredValue(config, "high_volatility"))
            margin == MarginBelow(op.stats, ConfiguredValue(config, "margin_protection"))
        IN  /\ op.out.exc = "none"
            /\ MetricsReturned =
                   (IF loss THEN <<"prob_loss">> ELSE <<>>)
                   \o (IF volatility THEN <<"coef_variacion">> ELSE <<>>)
                   \o (IF op.stats["p10"].num < 0 THEN <<"p10">>
                       ELSE IF margin THEN <<"margin_ratio">> ELSE <<>>)

----------------------------------------------------------------------------
(* C16 *)

\* The metric of the trigger that carries the threshold key as its limit.
MetricOf(key) ==
    CASE key = "critical_loss_prob" -> "prob_loss"
      [] key = "high_volatility" -> "coef_variacion"
      [] key = "margin_protection" -> "margin_ratio"

\* The limits carried by the triggers on metric in a returned list.
LimitsIn(out, metric) ==
    {out.val[i].umbral_permitido :
        i \in {j \in 1..Len(out.val) : out.val[j].metrica = metric}}

\* C16: a threshold absent from the configuration is applied with one value:
\* on the same statistics, any other configuration that also lacks the key
\* (whether its section is absent, empty, or holds other keys) returns
\* triggers for that rule with the same limit.
C16_SingleDefault ==
    (CompleteCall /\ op.out.exc = "none") =>
        \A c \in TriggerClients :
            \A key \in {"critical_loss_prob", "high_volatility", "margin_protection"} :
                LET other == MergeConfigs(template, c)
                    out == EvaluateTriggers(other, op.stats)
                IN  (/\ ~Configured(config, key)
                     /\ ~Configured(other, key)
                     /\ out.exc = "none") =>
                        LimitsIn(out, MetricOf(key)) = LimitsIn(op.out, MetricOf(key))

----------------------------------------------------------------------------
(* C17 *)

\* C17: every returned trigger carries every field of the Trigger record,
\* the recommendation included, and one of the three severities.
C17_TriggerFields ==
    (op.name = "evaluate_triggers" /\ op.out.exc = "none") =>
        \A i \in 1..Len(op.out.val) :
            /\ {"metrica", "nivel", "valor_actual", "umbral_permitido", "mensaje",
                "recomendacion", "timestamp"} \subseteq DOMAIN op.out.val[i]
            /\ op.out.val[i].nivel \in {"CRITICO", "ALTO", "MEDIO"}

----------------------------------------------------------------------------
(* Inputs of the setup specification: one variable v1 of each declared kind, *)
(* with and without fallback settings and a current price, and the series    *)
(* the spreadsheet may hold for it.  Percentages are in hundredths.          *)

FallbackSettings ==
    {Absent,
     Doc([mean |-> PyInt(50), std |-> PyInt(7)]),
     Doc([mean |-> PyInt(50)]),
     Doc([min_pct |-> PyInt(-20), mode_pct |-> PyInt(5), max_pct |-> PyInt(30)]),
     Doc([min_pct |-> PyInt(5)])}

SetupTemplates ==
    {Doc([industry |-> Doc([name |-> PyStr("alimentos")]),
          common_variables |-> PyList(<<VarEntry("v1")>>),
          default_distributions |-> Doc([v1 |-> Doc([type |-> PyStr(kind), fallback |-> fb])]),
          business_model |->
              Doc([parameters_required |-> PyList(<<PyStr("p1")>>),
                   template |-> MargenCode])]) :
        kind \in {"normal", "triangular", "uniform", "lognormal"}, fb \in FallbackSettings}

DatabaseSource ==
    Doc([type |-> PyStr("database"), host |-> PyStr("h"), database |-> PyStr("d"),
         username |-> PyStr("u"), password |-> PyStr("p"),
         tables |-> PyList(<<Doc([table |-> PyStr("fact_costos"),
                                  date_column |-> PyStr("fecha"),
                                  value_column |-> PyStr("costo"),
                                  maps_to_variable |-> PyStr("v1")])>>)])

SetupClients ==
    {Doc([client |-> Doc([name |-> PyStr("c"), industry |-> PyStr("alimentos")]),
          business_parameters |-> Doc([p1 |-> PyInt(45)]),
          simulation |-> Doc([n_simulations |-> PyInt(1)]),
          current_prices |-> cp,
          data_sources |-> PyList(<<ds>>)]) :
        cp \in {Absent, Doc([v1 |-> PyInt(200)])}, ds \in {ExcelSource, DatabaseSource}}

Series == {<<>>, <<NaN>>, <<7>>, <<0, NaN, 20>>, <<30, 10, 60, 44>>}

\* ExcelConnector.read_sheet drops the rows and the columns that hold no
\* value, so the value column it gives holds at least one observation.
SheetSeries == {s \in Series : \E i \in 1..Len(s) : s[i] # NaN}

\* DatabaseConnector.query_time_series gives the rows as they are.
TableSeries == Series

\* What the reader of a source may give for its one sheet or table.
AnswersFor(source) ==
    {[open |-> FALSE, frames |-> <<>>]}
    \cup {[open |-> TRUE, frames |-> <<[ok |-> TRUE, df |-> df]>>] :
             df \in IF source.map["type"] = PyStr("excel") THEN SheetSeries ELSE TableSeries}

InitSetup ==
    /\ template \in SetupTemplates
    /\ client \in SetupClients
    /\ config = MergeConfigs(template, client)
    /\ op = [name |-> "merge"]
    /\ NoEngine

\* load_historical_data, the configured source holding one of its series.
DoLoadSeries ==
    /\ engine = "ok"
    /\ \E a \in AnswersFor(Get(config, <<"data_sources">>, PyList(<<>>)).list[1]) :
          LET r == LoadHistoricalData(config, historical_data, <<a>>)
          IN  /\ historical_data' = r.hd
              /\ op' = [name |-> "load_historical_data", out |-> [exc |-> r.exc]]
    /\ UNCHANGED <<managerVars, engine, variables_config, model_function, results, rng>>

NextSetup == EngineInit \/ DoLoadSeries \/ DoSetupSimulation

SpecSetup == InitSetup /\ [][NextSetup]_vars

----------------------------------------------------------------------------
(* C18 *)

\* The observations of a series that are not missing.
Observations(series) == SelectSeq(series, LAMBDA v : v # NaN)

\* The declared kind of variable name.
DeclaredKind(cfg, name) ==
    Descend(cfg, <<"default_distributions", ".", name, ".", "type">>, 1).val.str

\* The VariableSpec the last setup_simulation appended.
LastSpec == variables_config[Len(variables_config)]

\* C18: a setup that succeeds for v1 with no series, or with a series holding
\* no observation, stores parameters that are all defined.
C18_NoObservationsMeansFallback ==
    (/\ op.name = "setup_simulation" /\ op.out.exc = "none"
     /\ "v1" \in DOMAIN historical_data => Observations(historical_data["v1"]) = <<>>) =>
        \A k \in DOMAIN LastSpec.params : LastSpec.params[k] # NaN

----------------------------------------------------------------------------
(* C19 *)

RECURSIVE Total(_, _)
Total(s, i) == IF i > Len(s) THEN 0 ELSE s[i] + Total(s, i + 1)

\* The k-th smallest observation.
Kth(s, k) ==
    CHOOSE x \in {s[i] : i \in 1..Len(s)} :
        /\ Cardinality({i \in 1..Len(s) : s[i] < x}) < k
        /\ Cardinality({i \in 1..Len(s) : s[i] <= x}) >= k

\* m is the mean of s, rounded down.
IsMean(m, s) == m * Len(s) <= Total(s, 1) /\ Total(s, 1) < (m + 1) * Len(s)

\* sd is the sample standard deviation (n - 1 in the divisor) of s, rounded
\* down; s has at least two observations.
IsSampleStd(sd, s) ==
    LET n == Len(s)
        ss == Total([i \in 1..n |-> (n * s[i] - Total(s, 1)) * (n * s[i] - Total(s, 1))], 1)
    IN  /\ sd >= 0
        /\ sd * sd * n * n * (n - 1) <= ss
        /\ ss < (sd + 1) * (sd + 1) * n * n * (n - 1)

\* The median, the mean of the two middle observations rounded down when
\* their number is even.
MedianOf(s) ==
    IF Len(s) % 2 = 1 THEN Kth(s, (Len(s) + 1) \div 2)
    ELSE (Kth(s, Len(s) \div 2) + Kth(s, Len(s) \div 2 + 1)) \div 2

\* C19: a setup for v1 with a series present stores, from the observations
\* left after dropping the missing ones, (mean, sample std) for normal,
\* (min, median, max) for triangular and (min, max) for uniform; any other
\* kind fails with ValueError.  The sample std of one observation is
\* undefined.
C19_ParamsFromObservations ==
    (op.name = "setup_simulation" /\ "v1" \in DOMAIN historical_data) =>
        LET obs == Observations(historical_data["v1"])
            kind == DeclaredKind(config, "v1")
            p == LastSpec.params
        IN  IF kind \notin {"normal", "triangular", "uniform"}
            THEN op.out.exc = "ValueError"
            ELSE /\ op.out.exc = "none"
                 /\ LastSpec.distribution = kind
                 /\ DOMAIN p = CASE kind = "normal" -> {"mean", "std"}
                                 [] kind = "triangular" -> {"min", "mode", "max"}
                                 [] kind = "uniform" -> {"min", "max"}
                 /\ (obs # <<>> /\ kind = "normal") =>
                       /\ IsMean(p.mean, obs)
                       /\ IF Len(obs) >= 2 THEN IsSampleStd(p.std, obs) ELSE p.std = NaN
                 /\ (obs # <<>> /\ kind \in {"triangular", "uniform"}) =>
                       /\ p.min = Kth(obs, 1)
                       /\ p.max = Kth(obs, Len(obs))
                 /\ (obs # <<>> /\ kind = "triangular") => p.mode = MedianOf(obs)

\* A triangular v1 set up from a series with a missing observation in it.
C19_Witness ==
    /\ op.name = "setup_simulation" /\ op.out.exc = "none"
    /\ "v1" \in DOMAIN historical_data
    /\ \E i \in 1..Len(historical_data["v1"]) : historical_data["v1"][i] = NaN
    /\ Observations(historical_data["v1"]) # <<>>
    /\ DeclaredKind(config, "v1") = "triangular"
    /\ LastSpec.params.min < LastSpec.params.max

----------------------------------------------------------------------------
(* C20 *)

\* The fallback setting key of variable name when configured, else dflt.
FallbackSetting(cfg, name, key, dflt) ==
    LET d == Descend(cfg, <<"default_distributions", ".", name, ".", "fallback", ".", key>>, 1)
    IN  IF d.found THEN d.val.int ELSE dflt

\* The configured current value of variable name, 100 when there is none.
CurrentValue(cfg, name) ==
    LET d == Descend(cfg, <<"current_prices", ".", name>>, 1)
    IN  IF d.found THEN d.val.int ELSE 100

\* C20: a setup for v1 without a series stores, for normal, the fallback mean
\* or else the current value and the fallback std or else a tenth of the
\* current value; for triangular, the current value times (1 + offset) with
\* offsets -10%, 0% and +15% unless configured; any other kind, uniform
\* included, fails with ValueError.
C20_FallbackParams ==
    (op.name = "setup_simulation" /\ "v1" \notin DOMAIN historical_data) =>
        LET kind == DeclaredKind(config, "v1")
            value == CurrentValue(config, "v1")
            p == LastSpec.params
        IN  IF kind = "normal"
            THEN /\ op.out.exc = "none"
                 /\ DOMAIN p = {"mean", "std"}
                 /\ p.mean = FallbackSetting(config, "v1", "mean", value)
                 /\ \/ p.std = FallbackSetting(config, "v1", "std", -1)
                    \/ /\ FallbackSetting(config, "v1", "std", -1) = -1
                       /\ p.std * 10 = value
            ELSE IF kind = "triangular"
            THEN /\ op.out.exc = "none"
                 /\ DOMAIN p = {"min", "mode", "max"}
                 /\ p.min * 100 = value * (100 + FallbackSetting(config, "v1", "min_pct", -10))
                 /\ p.mode * 100 = value * (100 + FallbackSetting(config, "v1", "mode_pct", 0))
                 /\ p.max * 100 = value * (100 + FallbackSetting(config, "v1", "max_pct", 15))
            ELSE op.out.exc = "ValueError"

\* A triangular v1 set up without a series, on a configured current value
\* and the default offsets.
C20_Witness ==
    /\ op.name = "setup_simulation" /\ op.out.exc = "none"
    /\ "v1" \notin DOMAIN historical_data
    /\ DeclaredKind(config, "v1") = "triangular"
    /\ CurrentValue(config, "v1") = 200
    /\ LastSpec.params = [min |-> 180, mode |-> 200, max |-> 230]

----------------------------------------------------------------------------
(* C21 *)

\* a <= b as Python compares floats: false when a side is NaN.
NumLe(a, b) == a # NaN /\ b # NaN /\ a <= b

\* The parameters of a stored VariableSpec are those of its kind.
MatchesKind(spec) ==
    CASE spec.distribution = "normal" -> DOMAIN spec.params = {"mean", "std"}
      [] spec.distribution = "triangular" ->
            /\ DOMAIN spec.params = {"min", "mode", "max"}
            /\ NumLe(spec.params.min, spec.params.mode)
            /\ NumLe(spec.params.mode, spec.params.max)
      [] spec.distribution = "uniform" -> DOMAIN spec.params = {"min", "max"}
      [] OTHER -> FALSE

\* C21: every VariableSpec that setup has stored carries the parameters of
\* its kind, and a stored triangular spec has min <= mode <= max, whether it
\* came from observations or from the fallback settings.
C21_ParamsMatchKind ==
    \A i \in 1..Len(variables_config) : MatchesKind(variables_config[i])

\* Every VariableSpec stored from a series holding an observation carries the
\* parameters of its kind in order.
C21_FromObservationsOrdered ==
    (/\ op.name = "setup_simulation" /\ op.out.exc = "none"
     /\ "v1" \in DOMAIN historical_data
     /\ Observations(historical_data["v1"]) # <<>>) => MatchesKind(LastSpec)

----------------------------------------------------------------------------
(* C22 *)

\* C22: the VariableSpec list holds each variable name at most once, whatever
\* calls were made on the engine.
C22_NamesUnique ==
    \A i, j \in 1..Len(variables_config) :
        variables_config[i].name = variables_config[j].name => i = j

----------------------------------------------------------------------------
(* Inputs of the model-lookup specification: what business_model.template    *)
(* may hold, for a variable that resolves without a series (normal) or only  *)
(* from one (uniform).                                                       *)

\* A text that defines a helper and no model.
HelperOnlyCode == [code |-> <<[name |-> <<"calcular">>, callable |-> TRUE, fn |-> "calcular"]>>]

\* A text that binds a name of the convention to a number.
NotCallableCode == [code |-> <<[name |-> <<"modelo_", "tasa">>, callable |-> FALSE,
                                fn |-> "tasa"]>>]

\* A text that does not compile.
InvalidCode == [invalid |-> TRUE]

ModelCodes ==
    {Absent, None, PyStr(""), InvalidCode, HelperOnlyCode, NotCallableCode,
     MargenCode, CocienteCode}

ModelTemplates ==
    {Doc([industry |-> Doc([name |-> PyStr("alimentos")]),
          common_variables |-> PyList(<<VarEntry("v1")>>),
          default_distributions |->
              Doc([v1 |-> Doc([type |-> PyStr(kind),
                               fallback |-> Doc([mean |-> PyInt(10), std |-> PyInt(10)])])]),
          business_model |->
              Doc([parameters_required |-> PyList(<<PyStr("p1")>>), template |-> code])]) :
        kind \in {"normal", "uniform"}, code \in ModelCodes}

ModelClients ==
    {Doc([client |-> Doc([name |-> PyStr("c"), industry |-> PyStr("alimentos")]),
          business_parameters |-> Doc([p1 |-> PyInt(45)]),
          simulation |-> Doc([n_simulations |-> PyInt(1)]),
          data_sources |-> PyList(<<ExcelSource>>)])}

InitModel ==
    /\ template \in ModelTemplates
    /\ client \in ModelClients
    /\ config = MergeConfigs(template, client)
    /\ op = [name |-> "merge"]
    /\ NoEngine

SpecModel == InitModel /\ [][NextSetup]_vars

----------------------------------------------------------------------------
(* C23 *)

\* The value of business_model.template, the empty text when there is none.
ModelText(cfg) ==
    LET d == Descend(cfg, <<"business_model", ".", "template">>, 1)
    IN  IF d.found THEN d.val ELSE PyStr("")

\* The callables of the naming convention that the text supplies.
ModelCallables(cfg) ==
    IF DOMAIN ModelText(cfg) # {"code"} THEN {}
    ELSE LET code == ModelText(cfg).code
         IN  {code[i].fn : i \in {j \in 1..Len(code) :
                                     code[j].callable /\ code[j].name[1] = "modelo_"}}

\* C23 as stated: setup fails with the model-not-found error exactly when the
\* text supplies no callable of the convention.
C23_AsStated ==
    op.name = "setup_simulation" =>
        /\ (op.out.exc = "ValueError" /\ op.out.raised_at = "model")
              <=> ModelCallables(config) = {}
        /\ op.out.exc = "none" =>
              model_function # None /\ model_function.fn \in ModelCallables(config)

\* v1 gets parameters: its kind is one the series, or else the fallback,
\* supports.
VariablesResolve(cfg, hd) ==
    IF "v1" \in DOMAIN hd THEN DeclaredKind(cfg, "v1") \in {"normal", "triangular", "uniform"}
    ELSE DeclaredKind(cfg, "v1") \in {"normal", "triangular"}

\* The value of business_model.template is a text that runs.
TextRuns(cfg) == ModelText(cfg) = PyStr("") \/ DOMAIN ModelText(cfg) = {"code"}

\* C23: setup fails with the model-not-found error exactly when every
\* variable resolves, the business-model text runs and no callable whose name
\* starts with modelo_ is supplied by it; a failure to resolve a variable or
\* to run the text is raised instead, before the lookup.  A setup that
\* succeeds leaves as model function a callable of the convention supplied by
\* the text.
C23_ModelNotFound ==
    op.name = "setup_simulation" =>
        /\ (op.out.exc = "ValueError" /\ op.out.raised_at = "model")
              <=> /\ VariablesResolve(config, historical_data)
                  /\ TextRuns(config)
                  /\ ModelCallables(config) = {}
        /\ ~VariablesResolve(config, historical_data) =>
              op.out.exc = "ValueError" /\ op.out.raised_at = "variables"
        /\ (VariablesResolve(config, historical_data) /\ ~TextRuns(config)) =>
              op.out.exc \in {"SyntaxError", "TypeError"}
        /\ op.out.exc = "none" =>
              model_function # None /\ model_function.fn \in ModelCallables(config)

\* The lookup failed on a text that binds a name of the convention to
\* something that cannot be called, after the variable was stored.
C23_Witness ==
    /\ op.name = "setup_simulation"
    /\ op.out.exc = "ValueError" /\ op.out.raised_at = "model"
    /\ ModelText(config) = NotCallableCode
    /\ variables_config # <<>>
    /\ model_function = None

----------------------------------------------------------------------------
(* Inputs of the report specification: two normal variables, v1 with a       *)
(* series or without, sampled up to MaxSims + 2 times and summarised.        *)

ReportTemplates ==
    {Doc([industry |-> Doc([name |-> PyStr("alimentos")]),
          common_variables |-> PyList(<<VarEntry("v1"), VarEntry("v2")>>),
          default_distributions |->
              Doc([v1 |-> Doc([type |-> PyStr("normal"),
                               fallback |-> Doc([mean |-> PyInt(10), std |-> PyInt(10)])]),
                   v2 |-> Doc([type |-> PyStr("normal"),
                               fallback |-> Doc([mean |-> PyInt(20), std |-> PyInt(std2)])])]),
          business_model |->
              Doc([parameters_required |-> PyList(<<PyStr("p1")>>),
                   template |-> MargenCode])]) : std2 \in {0, 5}}

ReportClients ==
    {Doc([client |-> Doc([name |-> PyStr("c"), industry |-> PyStr("alimentos")]),
          business_parameters |-> Doc([p1 |-> PyInt(45)]),
          simulation |-> Doc([n_simulations |-> PyInt(n)]),
          data_sources |-> PyList(<<ds>>)]) :
        n \in 1..(MaxSims + 2), ds \in {ExcelSource, DatabaseSource}}

InitReport ==
    /\ template \in ReportTemplates
    /\ client \in ReportClients
    /\ config = MergeConfigs(template, client)
    /\ op = [name |-> "merge"]
    /\ engine = "none"
    /\ historical_data = <<>>
    /\ variables_config = <<>>
    /\ model_function = None
    /\ results = None
    /\ rng \in 0..(RngMod - 1)

NextReport ==
    \/ EngineInit
    \/ DoLoadSeries
    \/ DoSetupSimulation
    \/ DoRun
    \/ DoGetStatistics
    \/ DoSensitivityAnalysis

SpecReport == InitReport /\ [][NextReport]_vars

----------------------------------------------------------------------------
(* C24 *)

\* The quantile of rank p percent of the observations x by linear
\* interpolation between the two order statistics around (n - 1) p / 100.
Interpolated(x, p) ==
    LET h == (Len(x) - 1) * p
        k == h \div 100 + 1
        up == IF k < Len(x) THEN k + 1 ELSE k
    IN  Rat(100 * Kth(x, k) + (h % 100) * (Kth(x, up) - Kth(x, k)), 100)

\* The summary fields from min to max, in rank order.
RankChain(s) == <<s.min, s.p10, s.p25, s.p50, s.p75, s.p90, s.p95, s.p99, s.max>>

ChainRanks == <<0, 10, 25, 50, 75, 90, 95, 99, 100>>

\* C24: the summary of a non-empty outcome vector has
\* min <= p10 <= p25 <= p50 <= p75 <= p90 <= p95 <= p99 <= max, each the
\* linearly interpolated quantile of its rank.
C24_PercentilesOrdered ==
    (op.name = "get_statistics" /\ op.out.exc = "none" /\ Len(results.outcome) > 0) =>
        /\ \A i \in 1..8 : RLe(RankChain(op.out.val)[i], RankChain(op.out.val)[i + 1])
        /\ \A i \in 1..9 :
              REq(RankChain(op.out.val)[i],
                  Interpolated(Observations(results.outcome), ChainRanks[i]))

\* The same for an outcome vector that holds a number.
C24_OrderedWhenNumeric ==
    (/\ op.name = "get_statistics" /\ op.out.exc = "none"
     /\ Observations(results.outcome) # <<>>) =>
        /\ \A i \in 1..8 : RLe(RankChain(op.out.val)[i], RankChain(op.out.val)[i + 1])
        /\ \A i \in 1..9 :
              REq(RankChain(op.out.val)[i],
                  Interpolated(Observations(results.outcome), ChainRanks[i]))

----------------------------------------------------------------------------
(* C25 *)

\* The rows whose outcome is at most q.
TailRows(outcome, q) ==
    {i \in 1..Len(outcome) : outcome[i] # NaN /\ RLe(Rat(outcome[i], 1), q)}

\* m is the mean of the outcomes of rows.
IsTailMean(m, outcome, rows) == REq(m, Rat(SumOver(outcome, rows), Cardinality(rows)))

\* C25: for a non-empty outcome vector var_95 is the 5th percentile, some
\* outcome is at most var_95, cvar_95 is the mean of those outcomes and
\* cvar_95 <= var_95.
C25_TailExpectation ==
    (op.name = "get_statistics" /\ op.out.exc = "none" /\ Len(results.outcome) > 0) =>
        /\ TailRows(results.outcome, op.out.val.var_95) # {}
        /\ REq(op.out.val.var_95, Interpolated(Observations(results.outcome), 5))
        /\ IsTailMean(op.out.val.cvar_95, results.outcome,
                      TailRows(results.outcome, op.out.val.var_95))
        /\ RLe(op.out.val.cvar_95, op.out.val.var_95)

\* The same for an outcome vector that holds a number.
C25_TailWhenNumeric ==
    (/\ op.name = "get_statistics" /\ op.out.exc = "none"
     /\ Observations(results.outcome) # <<>>) =>
        /\ TailRows(results.outcome, op.out.val.var_95) # {}
        /\ REq(op.out.val.var_95, Interpolated(Observations(results.outcome), 5))
        /\ IsTailMean(op.out.val.cvar_95, results.outcome,
                      TailRows(results.outcome, op.out.val.var_95))
        /\ RLe(op.out.val.cvar_95, op.out.val.var_95)

----------------------------------------------------------------------------
(* C26 *)

\* The place of variable name in the declaration order of the template.
DeclaredAt(cfg, name) ==
    CHOOSE i \in 1..Len(DeclaredVariables(cfg)) :
        VarName(DeclaredVariables(cfg)[i]).str = name

\* importance is the square of correlation, which is held rounded down to
\* hundredths.
IsSquareOf(importance, correlation) ==
    /\ RLe(RMul(correlation, correlation), importance)
    /\ RLt(importance, RMul(Rat(correlation.num + 1, 100), Rat(correlation.num + 1, 100)))

\* One row per declared variable, importance the squared correlation and
\* within [0, 1], rows by importance descending.
WellFormedReport(rows, cfg) ==
    /\ Len(rows) = Len(DeclaredVariables(cfg))
    /\ \A j \in 1..Len(DeclaredVariables(cfg)) :
          \E i \in 1..Len(rows) : rows[i].variable = VarName(DeclaredVariables(cfg)[j]).str
    /\ \A i \in 1..Len(rows) :
          /\ IsSquareOf(rows[i].importance, rows[i].correlation)
          /\ RLe(Rat(0, 1), rows[i].importance)
          /\ RLe(rows[i].importance, Rat(1, 1))
    /\ \A i, j \in 1..Len(rows) :
          i < j => RLe(rows[j].importance, rows[i].importance)

\* Rows of equal importance are in declaration order.
TiesInDeclarationOrder(rows, cfg) ==
    \A i, j \in 1..Len(rows) :
        (i < j /\ REq(rows[i].importance, rows[j].importance)) =>
            DeclaredAt(cfg, rows[i].variable) < DeclaredAt(cfg, rows[j].variable)

\* C26: the report holds one row per configured variable with importance =
\* correlation squared, every importance within [0, 1], rows by importance
\* descending and rows of equal importance in declaration order.
C26_SensitivityReport ==
    (op.name = "sensitivity_analysis" /\ op.out.exc = "none") =>
        /\ WellFormedReport(op.out.val, config)
        /\ TiesInDeclarationOrder(op.out.val, config)

\* A report whose correlations are all defined is well formed.
C26_WellFormedWhenDefined ==
    (/\ op.name = "sensitivity_analysis" /\ op.out.exc = "none"
     /\ \A i \in 1..Len(op.out.val) : ~IsRNaN(op.out.val[i].importance)) =>
        WellFormedReport(op.out.val, config)

\* A report with two rows of equal defined importance, the later declared
\* variable first.
C26_TieOutOfOrder ==
    /\ op.name = "sensitivity_analysis" /\ op.out.exc = "none"
    /\ Len(op.out.val) = 2
    /\ REq(op.out.val[1].importance, op.out.val[2].importance)
    /\ op.out.val[1].variable = "v2"

----------------------------------------------------------------------------
(* C27 *)

\* summary is computed from the outcome vector of run.
SummaryOf(summary, run) ==
    LET obs == Observations(run.outcome)
    IN  IF obs = <<>> THEN IsRNaN(summary.mean) /\ IsRNaN(summary.min)
        ELSE /\ REq(summary.mean, Rat(Total(obs, 1), Len(obs)))
             /\ REq(summary.min, Rat(Kth(obs, 1), 1))
             /\ REq(summary.max, Rat(Kth(obs, Len(obs)), 1))
             /\ REq(summary.p50, Interpolated(obs, 50))
             /\ REq(summary.prob_loss,
                    Rat(Cardinality({i \in 1..Len(obs) : obs[i] < 0}), Len(run.outcome)))

\* report is computed from the sample and outcome vectors of run.
ReportOf(report, run) ==
    \A i \in 1..Len(report) :
        /\ report[i].variable \in DOMAIN run.samples
        /\ report[i].importance
              = CorrSquared(run.samples[report[i].variable], run.outcome)

\* C27: a completed run stores a frame made of its own draws alone, the one
\* a first run would store, and nothing but a completed run changes the
\* stored frame; get_statistics, sensitivity_analysis and evaluate_triggers
\* change nothing of the engine, and the first two are computed from the
\* frame stored by the latest completed run.
C27_RunsFreshViewsReadOnly ==
    [][/\ (op'.name = "run" /\ op'.out.exc = "none") =>
             results' = Run(config, variables_config, model_function, None, rng).results
       /\ (op'.name # "run" \/ op'.out.exc # "none") => results' = results
       /\ op'.name \in {"get_statistics", "sensitivity_analysis", "evaluate_triggers"} =>
             UNCHANGED <<managerVars, engineVars>>
       /\ (op'.name = "get_statistics" /\ op'.out.exc = "none") =>
             SummaryOf(op'.out.val, results)
       /\ (op'.name = "sensitivity_analysis" /\ op'.out.exc = "none") =>
             ReportOf(op'.out.val, results)]_vars

\* A summary read from a completed run of two rows that differ.
C27_Witness ==
    /\ op.name = "get_statistics" /\ op.out.exc = "none"
    /\ Len(results.outcome) = 2
    /\ results.outcome[1] # results.outcome[2]
    /\ RLt(op.out.val.min, op.out.val.mean)
    /\ RLt(op.out.val.mean, op.out.val.max)

----------------------------------------------------------------------------
(* Inputs of the frame specification: documents loaded and not yet merged,   *)
(* the client overriding a setting three levels down in the template.        *)

FrameClients ==
    {Doc([client |-> Doc([name |-> PyStr("c"), industry |-> PyStr("alimentos")]),
          business_parameters |-> Doc([p1 |-> PyInt(45)]),
          simulation |-> Doc([n_simulations |-> PyInt(n)]),
          data_sources |-> ds,
          default_distributions |-> dd]) :
        n \in 1..MaxSims, ds \in {Absent, PyList(<<ExcelSource>>)},
        dd \in {Absent, Doc([v1 |-> Doc([fallback |-> Doc([mean |-> PyInt(12)])])])}}

InitFrame ==
    /\ template \in EngineTemplates
    /\ client \in FrameClients
    /\ config = None
    /\ op = [name |-> "load"]
    /\ NoEngine

NextFrame ==
    \/ Construct
    \/ EngineInit
    \/ DoLoadHistoricalData
    \/ DoSetupSimulation
    \/ DoRun
    \/ DoGetStatistics
    \/ DoSensitivityAnalysis
    \/ DoEvaluateTriggers

SpecFrame == InitFrame /\ [][NextFrame]_vars

----------------------------------------------------------------------------
(* C28 *)

----------------------------------------------------------------------------
(* C29 *)

\* C29: a call on a summary holding the four required statistics returns a
\* list of triggers and raises nothing, whatever the configured thresholds,
\* a threshold of 0 included.
C29_TriggersNeverRaise ==
    CompleteCall => op.out.exc = "none"

\* With no threshold configured as 0 such a call raises nothing.
C29_NoRaiseOnNonZero ==
    (/\ CompleteCall
     /\ \A key \in {"critical_loss_prob", "high_volatility"} :
           Configured(config, key) => ConfiguredValue(config, key) # 0) =>
        op.out.exc = "none"

----------------------------------------------------------------------------
(* C30 *)

\* C30: results are stored only by a run on an engine that was set up: in
\* every state with results the VariableSpec list is non-empty, a model
\* function is set and the outcome vector has the configured length.
C30_ResultsOnlyAfterSetup ==
    results # None =>
        /\ variables_config # <<>>
        /\ model_function # None
        /\ Len(results.outcome) = ConfiguredN(config)

====
